---- MODULE Spec2Model ----
(***************************************************************************)
(* A model of the resumable, rate-limited, concurrent ingestion engine of  *)
(* scripts/fetch_moltbook_api.py: the rate limiter, comment flattening,    *)
(* pagination, crawl state, the dedup ledgers and the traversals.          *)
(*                                                                         *)
(* asyncio is cooperative: a coroutine runs without interruption from one  *)
(* suspension point to the next.  The locks of ApiFetcher (state_lock,     *)
(* file_lock, network_lock) are only ever held across synchronous code, so *)
(* they are never contended and acquiring them does not suspend.  The      *)
(* suspension points are the HTTP call inside fetch_json, asyncio.gather,  *)
(* the semaphore of _process_post_guarded, queue.join and the rate         *)
(* limiter's sleep.  Every action of the crawler below is the code that    *)
(* runs between two suspension points.                                     *)
(***************************************************************************)
EXTENDS Integers, Sequences, FiniteSets, TLC

VARIABLES
    \* ---- AsyncRateLimiter ----
    rl_rps,      \* the rps argument, in units of 0.005 requests per second
    rl_now,      \* time.perf_counter(), in ticks of 50 seconds
    rl_last,     \* AsyncRateLimiter._last_ts
    rl_lock,     \* whether AsyncRateLimiter._lock is held
    rl_pc,       \* per caller: "call" | "queued" | "sleep"
    rl_wake,     \* per caller: the time its asyncio.sleep ends
    rl_grants,   \* the grants of wait(), in order: [t: the time, by: the caller]
    \* ---- flatten_comments ----
    fl_pc,       \* "input" | "done"
    fl_in,       \* the nested comments handed to flatten_comments
    fl_out,      \* the list it returned
    \* ---- the crawler (ApiFetcher) ----
    cfg,         \* the command-line arguments of the current process run
    disk,        \* the output directory: state.json and the jsonl ledgers (id -> lines)
    mem,         \* the fields of ApiFetcher: state, ledgers, modes, stop_event, queue
    procs,       \* the coroutines: where each one waits, and its locals
    hist,        \* what the current run requested and wrote (observation only)
    life,        \* runs, kills and failed fetches so far (observation only)
    \* ---- one call of fetch_json ----
    fj,          \* the path, the server's answers, the attempt and the result
    \* ---- the names of fetch_submolts and the queue of run ----
    dn,          \* the pages still to come, submolt_names, the queue
    \* ---- fetch_post_comments of moltbook_analysis.ingest.api ----
    fp,          \* the payloads of the server, the requests sent, the rows yielded
    \* ---- the network backoff of fetch_json and log_error ----
    nb           \* network_failures, the callers of fetch_json, the requests sent

rl_vars == <<rl_rps, rl_now, rl_last, rl_lock, rl_pc, rl_wake, rl_grants>>
fl_vars == <<fl_pc, fl_in, fl_out>>
cr_vars == <<cfg, disk, mem, procs, hist, life>>
vars == <<rl_vars, fl_vars, cr_vars, fj, dn, fp, nb>>

None == "None"
NoInt == -1

Max(a, b) == IF a >= b THEN a ELSE b
Min(a, b) == IF a <= b THEN a ELSE b

(***************************************************************************)
(* Pagination                                                              *)
(***************************************************************************)
pagination_start(mode) == IF mode = "page" THEN 1 ELSE 0

\* Pagination.params: the cursor parameter a request carries.
params(mode, cursor) ==
    IF mode = "limit" THEN [kind |-> "limit", cursor |-> NoInt]
    ELSE IF mode = "page" THEN [kind |-> "page", cursor |-> cursor]
    ELSE [kind |-> "offset", cursor |-> cursor]

next_cursor_nostep(mode, limit, cursor, count) ==
    IF mode = "limit" THEN cursor
    ELSE IF mode = "page" THEN cursor + 1
    ELSE cursor + limit

\* Pagination.next_cursor
next_cursor(mode, limit, cursor, count) ==
    IF mode = "limit" THEN cursor
    ELSE IF mode = "page" THEN cursor + 1
    ELSE cursor + (IF count > 0 THEN count ELSE limit)

(***************************************************************************)
(* AsyncRateLimiter.  Rates are in units of 0.005 requests per second and  *)
(* time in ticks of 50 seconds, so that 1/rate is (4 \div rate) ticks for  *)
(* the rates 1, 2 and 4 (0.005, 0.01 and 0.02 requests per second).        *)
(***************************************************************************)
NumCallers == 2
MaxGrants == 3
MaxClock == 7
\* max(rps, 0.01): 0.01 requests per second is 2 units of 0.005
MinRps == 2

Callers == 1..NumCallers
RpsChoices == {1, 2, 4}

\* AsyncRateLimiter.__init__: self._rps = max(rps, 0.01)
limiter_rps(rps) == Max(rps, MinRps)

\* min_interval = 1.0 / self._rps, in ticks
min_interval(rps) == 4 \div limiter_rps(rps)

sleep_for_short(interval, elapsed) == interval - elapsed - 1

\* wait: the argument of asyncio.sleep
sleep_for(interval, elapsed) == interval - elapsed

RLInit ==
    /\ rl_rps \in RpsChoices
    /\ rl_now \in 0..1
    /\ rl_last = 0
    /\ rl_lock = FALSE
    /\ rl_pc = [c \in Callers |-> "call"]
    /\ rl_wake = [c \in Callers |-> 0]
    /\ rl_grants = <<>>

RLIdle ==
    /\ rl_rps = 4
    /\ rl_now = 0
    /\ rl_last = 0
    /\ rl_lock = FALSE
    /\ rl_pc = [c \in Callers |-> "call"]
    /\ rl_wake = [c \in Callers |-> 0]
    /\ rl_grants = <<>>

\* time passes
RLTick ==
    /\ rl_now < MaxClock
    /\ rl_now' = rl_now + 1
    /\ UNCHANGED <<rl_rps, rl_last, rl_lock, rl_pc, rl_wake, rl_grants>>

\* the part of wait() that runs once the lock is held, up to the sleep or the return
RLEnter(c) ==
    LET interval == min_interval(rl_rps)
        elapsed == rl_now - rl_last
    IN  IF elapsed < interval
        THEN /\ rl_lock' = TRUE
             /\ rl_pc' = [rl_pc EXCEPT ![c] = "sleep"]
             /\ rl_wake' = [rl_wake EXCEPT ![c] = rl_now + sleep_for(interval, elapsed)]
             /\ UNCHANGED <<rl_last, rl_grants>>
        ELSE /\ rl_last' = rl_now
             /\ rl_grants' = Append(rl_grants, [t |-> rl_now, by |-> c])
             /\ rl_lock' = FALSE
             /\ rl_pc' = [rl_pc EXCEPT ![c] = "call"]
             /\ UNCHANGED rl_wake

\* a task calls limiter.wait() (fetch_json, before each attempt)
RLWait(c) ==
    /\ rl_pc[c] = "call"
    /\ Len(rl_grants) + Cardinality({d \in Callers : rl_pc[d] # "call"}) < MaxGrants
    /\ IF ~rl_lock
       THEN RLEnter(c)
       ELSE /\ rl_pc' = [rl_pc EXCEPT ![c] = "queued"]
            /\ UNCHANGED <<rl_last, rl_lock, rl_wake, rl_grants>>
    /\ UNCHANGED <<rl_rps, rl_now>>

\* a queued caller gets the lock after its holder released it
RLAcquire(c) ==
    /\ rl_pc[c] = "queued"
    /\ rl_lock = FALSE
    /\ RLEnter(c)
    /\ UNCHANGED <<rl_rps, rl_now>>

\* asyncio.sleep is over: self._last_ts = time.perf_counter(), the lock is released
RLWake(c) ==
    /\ rl_pc[c] = "sleep"
    /\ rl_now >= rl_wake[c]
    /\ rl_last' = rl_now
    /\ rl_grants' = Append(rl_grants, [t |-> rl_now, by |-> c])
    /\ rl_lock' = FALSE
    /\ rl_pc' = [rl_pc EXCEPT ![c] = "call"]
    /\ UNCHANGED <<rl_rps, rl_now, rl_wake>>

RLCall == \E c \in Callers : RLWait(c)
RLLock == \E c \in Callers : RLAcquire(c)
RLSlept == \E c \in Callers : RLWake(c)

(***************************************************************************)
(* flatten_comments.  A comment is a record; a field the upstream payload  *)
(* does not carry is None (NoInt for depth).  thread_path is the string    *)
(* the code builds.                                                        *)
(***************************************************************************)
MaxNodes == 3

CommentIds == {"c1", "c2", "c3"}
\* what the upstream payload carries besides replies: an id only ("plain"), no id,
\* an id and a parent_id, or an id with depth and thread_path
Variants == {"plain", "noid", "parent", "upstream"}
FlattenPost == "p1"

Comment(id, variant, replies) ==
    [id |-> IF variant = "noid" THEN None ELSE id,
     post_id |-> None,
     parent_id |-> IF variant = "parent" THEN "cx" ELSE None,
     depth |-> IF variant = "upstream" THEN 5 ELSE NoInt,
     thread_path |-> IF variant = "upstream" THEN "up" ELSE None,
     replies |-> replies]

RECURSIVE Forests(_)
\* every list of nested comments with exactly n comments in all
Forests(n) ==
    IF n = 0 THEN {<<>>}
    ELSE UNION {
        { <<Comment(id, v, r)>> \o rest :
            id \in CommentIds, v \in Variants, r \in Forests(k - 1), rest \in Forests(n - k) }
        : k \in 1..n }

FlattenInputs == UNION { Forests(n) : n \in 0..MaxNodes }

Truthy(s) == s # None /\ s # ""

child_depth_same(depth) == depth

\* the depth argument of the recursive call
child_depth(depth) == depth + 1

RECURSIVE flatten_comments(_, _, _, _, _, _)
flatten_comments(comments, post_id, parent_id, depth, thread_path, out) ==
    IF comments = <<>> THEN out
    ELSE
      LET c == Head(comments)
          cid == c.id
          c_post == IF Truthy(post_id) /\ ~Truthy(c.post_id) THEN post_id ELSE c.post_id
          c_parent == IF Truthy(parent_id) /\ ~Truthy(c.parent_id)
                      THEN parent_id ELSE c.parent_id
          c_depth == IF c.depth = NoInt THEN depth ELSE c.depth
          base == IF Truthy(thread_path) THEN thread_path
                  ELSE IF Truthy(post_id) THEN post_id ELSE ""
          c_path == IF c.thread_path # None THEN c.thread_path
                    ELSE IF base # "" /\ Truthy(cid) THEN base \o "/" \o cid
                    ELSE IF base # "" THEN base
                    ELSE IF Truthy(cid) THEN cid
                    ELSE None
          row == [id |-> cid, post_id |-> c_post, parent_id |-> c_parent,
                  depth |-> c_depth, thread_path |-> c_path]
          next_parent == IF Truthy(cid) THEN cid ELSE parent_id
          next_path == IF Truthy(c_path) THEN c_path ELSE thread_path
          out1 == Append(out, row)
          out2 == IF c.replies # <<>>
                  THEN flatten_comments(c.replies, post_id, next_parent,
                                        child_depth(depth), next_path, out1)
                  ELSE out1
      IN  flatten_comments(Tail(comments), post_id, parent_id, depth, thread_path, out2)

FLInit ==
    /\ fl_pc = "input"
    /\ fl_in \in FlattenInputs
    /\ fl_out = <<>>

FLIdle ==
    /\ fl_pc = "idle"
    /\ fl_in = <<>>
    /\ fl_out = <<>>

\* flat = flatten_comments(comments, post_id=post_id)
Flatten ==
    /\ fl_pc = "input"
    /\ fl_out' = flatten_comments(fl_in, FlattenPost, None, 0, None, <<>>)
    /\ fl_pc' = "done"
    /\ UNCHANGED fl_in

(***************************************************************************)
(* The crawler: configuration and the mock API it runs against             *)
(*                                                                         *)
(* ApiFetcher runs on one asyncio event loop, so the code between two      *)
(* suspension points is one atomic step.  The suspension points modelled   *)
(* are the HTTP requests of fetch_json, asyncio.gather, the semaphore of   *)
(* _process_post_guarded and queue.join; a lock that is free when it is    *)
(* taken does not suspend.  Assumptions of the model:                      *)
(*   - fetch_json is one step that ends with a payload or, after its       *)
(*     retries, with None; a 404 ends it at once;                          *)
(*   - the process is killed only while it waits at a suspension point,    *)
(*     and state.json is replaced atomically (atomic_write_json);          *)
(*   - the tasks of one gather and the workers start in any order;         *)
(*   - the server honours the cursor it is sent and its content does not   *)
(*     change between runs;                                                *)
(*   - the sorts are "new" and "hot" for submolts and for the global feed; *)
(*   - comments-only mode reads posts.jsonl in the order PostOrder;        *)
(*   - the runs of one output directory follow one of the plans in         *)
(*     Scenarios, which also bound the kills and the failed fetches.       *)
(***************************************************************************)
PageSize == 2
NumWorkers == 2
PostConcurrency == 2
MaxRuns == 2
MaxKills == 1
MaxFailures == 1

Keys == {"submolts", "submolt_posts", "global_posts", "comments"}
Modes == {"page", "offset", "limit"}

\* what /api/v1/submolts lists, and the posts each listing endpoint returns
SubmoltNames == <<"test", "other">>
NameSet == {"test", "other"}
AllPosts == {"p1", "p2", "p3"}
AllComments == {"c1", "c2", "c3"}
Sorts == {"new", "hot"}

Content(scope) ==
    CASE scope = "submolts" -> SubmoltNames
      [] scope = "test" -> <<"p1", "p2">>
      [] scope = "other" -> <<"p2">>
      [] OTHER -> <<"p3">>

\* the rows of one page: the server honours page=, offset= and a bare limit=
ServerRows(content, req, limit) ==
    LET first == IF req.kind = "page" THEN (Max(req.cursor, 1) - 1) * limit + 1
                 ELSE IF req.kind = "offset" THEN req.cursor + 1
                 ELSE 1
    IN  SubSeq(content, first, Min(first + limit - 1, Len(content)))

\* pagination.hasMore of a page, for the endpoints that report it ("none": not reported)
ServerHasMore(scope, content, req, limit) ==
    LET first == IF req.kind = "page" THEN (Max(req.cursor, 1) - 1) * limit + 1
                 ELSE IF req.kind = "offset" THEN req.cursor + 1
                 ELSE 1
    IN  IF scope # "global" THEN "none"
        ELSE IF first + limit - 1 < Len(content) THEN "true" ELSE "false"

\* comment_count of a listing row (NoInt: the row carries none)
RowCount(p) == CASE p = "p1" -> 2 [] p = "p2" -> 0 [] OTHER -> NoInt

\* the nested comments /api/v1/posts/{id}/comments returns
CommentTree(p) ==
    IF p = "p1" THEN <<Comment("c1", "plain", <<Comment("c2", "plain", <<>>)>>)>> ELSE <<>>

\* the posts whose comments endpoint answers 404
CommentsNotFound(p) == p = "p3"

\* the comments embedded in the detail payload /api/v1/posts/{id}
DetailComments(p) == IF p = "p3" THEN <<Comment("c3", "plain", <<>>)>> ELSE <<>>

\* the command line of one run (build_parser); fields not listed keep their defaults
Args(pagination, max_posts, preflight, continue_on_preflight_fail, comments_only, requeue) ==
    [pagination |-> pagination,
     max_posts |-> max_posts,
     preflight |-> preflight,
     continue_on_preflight_fail |-> continue_on_preflight_fail,
     comments_only |-> comments_only,
     requeue_submolts |-> requeue,
     skip_comments |-> FALSE,
     skip_comments_when_zero |-> TRUE,
     include_global |-> TRUE,
     max_pages_per_sort |-> 0,
     max_submolts |-> 0,
     max_comment_pages |-> 0,
     submolt_batch_size |-> NumWorkers]

DefaultPagination == [k \in Keys |-> IF k = "comments" THEN "limit" ELSE "offset"]
AutoPagination == [k \in Keys |-> "auto"]
PagePagination == [k \in Keys |-> "page"]
MixedPagination ==
    [k \in Keys |-> CASE k = "comments" -> "limit" [] k = "global_posts" -> "offset"
                       [] OTHER -> "page"]

\* the command lines of the runs
DefaultArgs == Args(DefaultPagination, 0, "skip", FALSE, FALSE, FALSE)
AutoArgs == Args(AutoPagination, 0, "run", TRUE, FALSE, FALSE)
ForceArgs == Args(PagePagination, 0, "force", FALSE, FALSE, FALSE)
CappedArgs == Args(DefaultPagination, 2, "skip", FALSE, FALSE, FALSE)
GlobalCapArgs == Args(DefaultPagination, 3, "skip", FALSE, FALSE, FALSE)
CappedPageArgs == Args(PagePagination, 2, "skip", FALSE, FALSE, FALSE)
StrictArgs == Args(DefaultPagination, 0, "run", FALSE, FALSE, FALSE)
CommentsOnlyArgs == Args(AutoPagination, 0, "skip", FALSE, TRUE, FALSE)
RequeueArgs == Args(DefaultPagination, 0, "skip", FALSE, FALSE, TRUE)
MixedArgs == Args(MixedPagination, 0, "skip", FALSE, FALSE, FALSE)

\* the first run with arguments first, every later one with arguments then
Plan(first, then) == [i \in 1..MaxRuns |-> IF i = 1 THEN first ELSE then]

\* a scenario: the arguments of the successive runs on one output directory, how
\* often the process may be killed and how many fetches may fail for good, and
\* whether the comments endpoint ignores the cursor it is sent
Scenario(first, then, kills, failures) ==
    [plan |-> Plan(first, then), kills |-> kills, failures |-> failures, sticky |-> FALSE,
     repeats |-> FALSE]

StickyScenario(first, then) == [Scenario(first, then, 0, 0) EXCEPT !.sticky = TRUE]

Scenarios ==
    { Scenario(DefaultArgs, DefaultArgs, MaxKills, MaxFailures),
      Scenario(DefaultArgs, RequeueArgs, 0, MaxFailures),
      Scenario(AutoArgs, AutoArgs, MaxKills, 0),
      Scenario(AutoArgs, AutoArgs, 0, MaxFailures),
      Scenario(ForceArgs, ForceArgs, MaxKills, 0),
      Scenario(MixedArgs, MixedArgs, 0, 0),
      Scenario(CappedArgs, DefaultArgs, MaxKills, 0),
      Scenario(DefaultArgs, CommentsOnlyArgs, MaxKills, 0),
      Scenario(GlobalCapArgs, DefaultArgs, 0, 0),
      Scenario(CappedPageArgs, DefaultArgs, 0, 0),
      StickyScenario(ForceArgs, ForceArgs),
      Scenario(StrictArgs, StrictArgs, 0, MaxFailures) }

\* the scenarios in which /api/v1/submolts lists one submolt twice on its page
RepeatScenarios ==
    { [Scenario(DefaultArgs, DefaultArgs, MaxKills, MaxFailures) EXCEPT !.repeats = TRUE] }

\* --max-posts 1
OnePostArgs == [CappedArgs EXCEPT !.max_posts = 1]

\* --max-posts 1 --submolt-batch-size 1
SingleWorkerArgs == [OnePostArgs EXCEPT !.submolt_batch_size = 1]

\* the scenarios of the worker pool under a cap of one post: one submolt worker, and
\* NumWorkers workers
PoolScenarios ==
    { Scenario(SingleWorkerArgs, DefaultArgs, MaxKills, MaxFailures),
      Scenario(OnePostArgs, DefaultArgs, 0, 0) }

\* the scenarios of an outage: fetch_json returns None for up to MaxOutage requests
\* of the runs, or the process is killed
MaxOutage == 2

OutageScenarios ==
    { Scenario(DefaultArgs, DefaultArgs, 0, MaxOutage),
      Scenario(DefaultArgs, DefaultArgs, MaxKills, 0) }

(***************************************************************************)
(* CrawlState (state.json), the ledgers and the files                      *)
(***************************************************************************)
SortAbsent == [present |-> FALSE, done |-> FALSE, failed |-> FALSE, cursor |-> NoInt]
SortFresh == [present |-> TRUE, done |-> FALSE, failed |-> FALSE, cursor |-> NoInt]
ProgressAbsent == [present |-> FALSE, done |-> FALSE, sorts |-> [s \in Sorts |-> SortAbsent]]
ProgressFresh == [present |-> TRUE, done |-> FALSE, sorts |-> [s \in Sorts |-> SortAbsent]]

\* Pagination.start as __init__ computes it for the submolts endpoint
submolts_start(args) ==
    pagination_start(IF args.pagination["submolts"] # "auto"
                     THEN args.pagination["submolts"] ELSE "offset")

\* default_state of ApiFetcher.__init__
default_state(args) ==
    [preflight_done |-> FALSE,
     submolts |-> [cursor |-> submolts_start(args), done |-> FALSE],
     submolt_names |-> <<>>,
     submolt_progress |-> [n \in NameSet |-> ProgressAbsent],
     global_posts |-> [done |-> FALSE, sorts |-> [s \in Sorts |-> SortAbsent]],
     counts_posts |-> 0,
     pagination |-> [k \in Keys |-> None],
     endpoint_by_name |-> [n \in NameSet |-> None]]

EmptyDisk ==
    [has_state |-> FALSE,
     state |-> default_state(DefaultArgs),
     posts |-> [p \in AllPosts |-> 0],
     comments |-> [c \in AllComments |-> 0],
     comments_done |-> [p \in AllPosts |-> 0]]

\* load_seen_ids: the ids a file holds
load_seen_ids_none(file) == {}

\* load_seen_ids: the ids that have a line in the file
load_seen_ids(file) == { x \in DOMAIN file : file[x] > 0 }

\* append_jsonl of one row with the given id
append_jsonl(file, id) == [file EXCEPT ![id] = @ + 1]

RECURSIVE append_all(_, _)
append_all(file, ids) ==
    IF ids = <<>> THEN file ELSE append_all(append_jsonl(file, Head(ids)), Tail(ids))

SeqToSet(s) == { s[i] : i \in 1..Len(s) }

\* state["submolt_names"].extend([n for n in names if n not in state["submolt_names"]])
extend_new(names, rows) ==
    names \o SelectSeq(rows, LAMBDA n : n \notin SeqToSet(names))

\* run, lines 1102-1109: the names cut to --max-submolts, without those done
todo_of(names, max_submolts, done) ==
    LET submolts == IF max_submolts > 0
                    THEN SubSeq(names, 1, Min(max_submolts, Len(names))) ELSE names
    IN  SelectSeq(submolts, LAMBDA s : ~done[s])

\* how one iteration of the loop of fetch_submolts ends (lines 673-699): names is
\* submolt_names after the page was added
submolts_page(ok, rows, has_more, max_submolts, names) ==
    IF ~ok THEN "failure"
    ELSE IF rows = <<>> THEN "empty"
    ELSE IF has_more = "false" THEN "has_more_false"
    ELSE IF max_submolts > 0 /\ Len(names) >= max_submolts THEN "max_submolts"
    ELSE "continue"

(***************************************************************************)
(* The coroutines.  <<0, 0>> is ApiFetcher.run, <<w, 0>> the w-th submolt  *)
(* worker, <<o, i>> the i-th per-post task of the page its owner o is      *)
(* processing (in comments-only mode, the i-th worker of                   *)
(* run_comments_only).  pc names the suspension point a coroutine is at.   *)
(***************************************************************************)
MainProc == <<0, 0>>
Owners == 0..NumWorkers
Slots == 1..Max(PageSize, PostConcurrency)
WorkerProcs == { <<w, 0>> : w \in 1..NumWorkers }
TaskProcs == { <<o, i>> : o \in Owners, i \in Slots }
Procs == {MainProc} \cup WorkerProcs \cup TaskProcs
TasksOf(o) == { <<o[1], i>> : i \in Slots }
Pairs == { <<sc, so>> : sc \in NameSet \cup {"global"}, so \in Sorts }

Blank ==
    [pc |-> "none", ret |-> "none", eret |-> "none", phase |-> None,
     \* locals of process_submolt / process_global_posts / fetch_submolts
     name |-> None, ep |-> None, si |-> 0, cursor |-> NoInt, page_idx |-> 0,
     seen_ids |-> {}, nrows |-> 0, has_more |-> "none", nlisting |-> 0,
     \* the cursor parameter of the request in flight
     req |-> [kind |-> "limit", cursor |-> NoInt],
     \* locals of ensure_pagination_mode / _detect_pagination_mode
     pkey |-> None, ptarget |-> None, has_page |-> FALSE, rows_page |-> 0,
     \* locals of process_post / fetch_comments
     post |-> None, count |-> NoInt, had_error |-> FALSE,
     \* observation: how the loop of fetch_comments ended
     cm_end |-> None,
     \* observation: the task was created while stop_event was set
     late |-> FALSE,
     \* observation: the comments mode this fetch_comments started in, its fetches
     cm_mode |-> None, cm_fetches |-> 0]

FetchPcs == {"probe_page", "probe_offset", "ep_feed", "ep_posts", "page", "disc",
             "pf_submolts", "pf_listing", "pf_detail", "pf_comments",
             "detail", "cm_limit", "cm_page"}

\* the in-memory fields of ApiFetcher after __init__ (lines 294-313)
BootMem(args, d) ==
    [state |-> IF d.has_state THEN d.state ELSE default_state(args),
     seen_posts |-> load_seen_ids(d.posts),
     seen_comments |-> load_seen_ids(d.comments),
     comments_done |-> load_seen_ids(d.comments_done),
     mode |-> args.pagination,
     stop |-> FALSE,
     sem |-> PostConcurrency,
     queue |-> <<>>,
     unfinished |-> 0]

\* no process is running
DeadMem ==
    [state |-> default_state(DefaultArgs),
     seen_posts |-> {}, seen_comments |-> {}, comments_done |-> {},
     mode |-> DefaultPagination, stop |-> FALSE, sem |-> PostConcurrency,
     queue |-> <<>>, unfinished |-> 0]

\* what the properties observe of one run
BootRun(d) ==
    [start_done |-> { p \in AllPosts : d.comments_done[p] > 0 },
     start_state |-> d.state,
     start_has |-> d.has_state,
     detail_reqs |-> [p \in AllPosts |-> 0],
     post_rows |-> [p \in AllPosts |-> 0],
     comment_reqs |-> {},
     probes |-> [k \in Keys |-> 0],
     detections |-> [k \in Keys |-> 0],
     rows_seen |-> {},
     resolved |-> {},
     adv |-> {},
     limit_fetches |-> {},
     listed |-> [pr \in Pairs |-> 0],
     scheduled |-> [pr \in Pairs |-> 0],
     first_page |-> [pr \in Pairs |-> [seen |-> FALSE, rows |-> 0, fresh |-> 0, cursor |-> NoInt]],
     relisted |-> {},
     two_page |-> {},
     first_fail |-> {},
     later_fail |-> [pr \in Pairs |-> NoInt],
     first_req |-> [pr \in Pairs |-> NoInt],
     undone |-> {},
     stopped |-> FALSE,
     interrupted |-> {},
     cm_ends |-> {},
     cm_failed |-> {},
     queued |-> {},
     behind |-> {},
     pulls |-> [n \in NameSet |-> 0],
     phases |-> <<>>,
     early_global |-> FALSE,
     preflight_failed |-> FALSE,
     flipped |-> FALSE,
     after_stop |-> {}]

(***************************************************************************)
(* Helpers on the world W = [cfg, disk, mem, procs, run, hist, out, rnd]:  *)
(* the program's variables, the outcome of the fetch that returned and the *)
(* value random.choice draws.                                              *)
(***************************************************************************)
\* self.stop_event.set()
stop_event_set(W) == [W EXCEPT !.mem.stop = TRUE, !.hist.stopped = TRUE]

\* an event of the given kind happens; it is recorded when stop_event is set
Note(W, kind) == IF W.mem.stop THEN [W EXCEPT !.hist.after_stop = @ \cup {kind}] ELSE W

\* a request of coroutine p goes out: the phase of the run it belongs to is recorded,
\* and for a request of the global feed whether a submolt worker or one of its tasks
\* is still under way
NotePhase(W, p) ==
    LET ph == W.procs[p].phase
        busy == \E q \in Procs : q[1] # 0 /\ W.procs[q].pc \notin {"none", "exit", "done"}
    IN  [W EXCEPT !.hist.phases =
                      IF @ # <<>> /\ @[Len(@)] = ph THEN @ ELSE Append(@, ph),
                  !.hist.early_global = @ \/ (ph = "global" /\ busy)]

\* a request of coroutine p goes out; its kind is recorded when stop_event is set
NoteReq(W, p, kind) ==
    NotePhase(Note(W, IF W.procs[p].late THEN "late_req" ELSE kind), p)

\* save_state / atomic_write_json(self.state_path, self.state)
\* the done flags that are true in a state: of the pairs, and of the scopes ("*")
DoneFlags(state) ==
    { pair \in Pairs :
        IF pair[1] = "global" THEN state.global_posts.sorts[pair[2]].done
        ELSE state.submolt_progress[pair[1]].sorts[pair[2]].done }
        \cup { <<n, "*">> : n \in { m \in NameSet : state.submolt_progress[m].done } }
        \cup (IF state.global_posts.done THEN { <<"global", "*">> } ELSE {})

save_state(W) ==
    [W EXCEPT !.disk.state = W.mem.state, !.disk.has_state = TRUE,
              !.hist.undone = @ \cup (DoneFlags(W.disk.state) \ DoneFlags(W.mem.state))]

\* log_error: appends to errors.jsonl and writes the state file
log_error(W) == save_state(W)

IdsOf(flat) == [i \in 1..Len(flat) |-> flat[i].id]

RECURSIVE new_rows(_, _)
\* write_comments: the ids of the rows that are appended, given the ledger
new_rows(ids, seen) ==
    IF ids = <<>> THEN <<>>
    ELSE IF Head(ids) # None /\ Head(ids) \in seen THEN new_rows(Tail(ids), seen)
    ELSE <<Head(ids)>> \o new_rows(Tail(ids), seen \cup {Head(ids)})

write_comments(W, post_id, comments) ==
    LET flat == flatten_comments(comments, post_id, None, 0, None, <<>>)
        new == new_rows(IdsOf(flat), W.mem.seen_comments)
    IN  IF new = <<>> THEN W
        ELSE save_state([W EXCEPT !.mem.seen_comments = @ \cup SeqToSet(new),
                                  !.disk.comments = append_all(@, new)])

\* append_jsonl(self.comments_done_path, [{"post_id": post_id}]); self.comments_done.add(post_id)
mark_comments_done(W, post_id) ==
    [W EXCEPT !.disk.comments_done = append_jsonl(@, post_id),
              !.mem.comments_done = @ \cup {post_id}]

\* _set_pagination_mode
set_pagination_mode(W, key, mode) ==
    save_state([W EXCEPT !.mem.mode[key] = mode, !.mem.state.pagination[key] = mode])

\* the rows a listing endpoint returns for the request of coroutine p
ListingRows(W, p, scope) == ServerRows(Content(scope), W.procs[p].req, PageSize)

\* the request the comments endpoint acts on: one that ignores the cursor serves
\* the first page whatever it is sent
\* the rows /api/v1/submolts lists
SubmoltRows(W) == IF W.repeats THEN <<"test", "test">> ELSE Content("submolts")

CommentReq(W, req) == IF W.sticky THEN [kind |-> "limit", cursor |-> NoInt] ELSE req

\* the top-level comments the comments endpoint returns for the request of p
CommentRows(W, p, post) ==
    ServerRows(CommentTree(post), CommentReq(W, W.procs[p].req), PageSize)

\* fetch_comments of a post ended: how, and whether it wrote the comments-done marker
NoteEnd(W, post, how, marked) ==
    [W EXCEPT !.hist.cm_ends = @ \cup {<<how, marked>>},
              !.hist.cm_failed = @ \cup (IF how \in {"failure", "limit_failure"}
                                         THEN {post} ELSE {})]

TopIds(rows) == { rows[i].id : i \in 1..Len(rows) } \ {None}

\* --submolt-sorts and --global-sorts
submolt_sorts == <<"new", "hot">>

Proc(W, p) == W.procs[p]
SetProc(W, p, rec) == [W EXCEPT !.procs[p] = rec]
Await(W, p, at) == [W EXCEPT !.procs[p].pc = at]

\* the sort_state dict of a (submolt or global, sort) pair, and its update
sort_state(W, scope, sort) ==
    IF scope = "global" THEN W.mem.state.global_posts.sorts[sort]
    ELSE W.mem.state.submolt_progress[scope].sorts[sort]

set_sort_state(W, scope, sort, rec) ==
    IF scope = "global" THEN [W EXCEPT !.mem.state.global_posts.sorts[sort] = rec]
    ELSE [W EXCEPT !.mem.state.submolt_progress[scope].sorts[sort] = rec]

\* all(s.get("done") for s in sorts.values())
all_done(sorts) == \A s \in DOMAIN sorts : sorts[s].present => sorts[s].done

\* the key of the Pagination object a traversal of scope uses
page_key(scope) == IF scope = "global" THEN "global_posts" ELSE "submolt_posts"

\* what a probe of _detect_pagination_mode gets: <<has_list, len(rows)>>
ProbeResult(W, p, out) ==
    LET pr == Proc(W, p)
        content == IF pr.pkey = "submolts" THEN SubmoltRows(W)
                   ELSE IF pr.pkey = "comments" THEN CommentTree(pr.ptarget)
                   ELSE Content(pr.ptarget)
        req == IF pr.pkey = "comments" THEN CommentReq(W, pr.req) ELSE pr.req
    IN  IF out = "fail" \/ (pr.pkey = "comments" /\ CommentsNotFound(pr.ptarget))
        THEN <<FALSE, 0>>
        ELSE <<TRUE, Len(ServerRows(content, req, PageSize))>>

\* _detect_pagination_mode, lines 391-397
detected_mode(has_page, rows_page, has_offset, rows_offset) ==
    IF has_page /\ ~has_offset THEN "page"
    ELSE IF has_offset /\ ~has_page THEN "offset"
    ELSE IF has_page /\ has_offset
         THEN (IF rows_offset >= rows_page THEN "offset" ELSE "page")
    ELSE "page"

stored_mode_ignored(stored) == FALSE

\* ensure_pagination_mode, line 412: stored in ("page", "offset", "limit")
stored_mode_usable(stored) == stored \in Modes

\* a request to the comments endpoint of a post is recorded with the phase of the run
NoteCommentReq(W, p, post) ==
    [W EXCEPT !.hist.comment_reqs = @ \cup {<<W.procs[p].phase, post>>}]

\* _detect_pagination_mode is called (line 415) and its first request goes out
IssueProbe(W, p, key, target, ret) ==
    LET W1 == [W EXCEPT !.procs[p] = [@ EXCEPT !.pc = "probe_page", !.ret = ret,
                                               !.pkey = key, !.ptarget = target,
                                               !.req = [kind |-> "page", cursor |-> 1]],
                        !.hist.probes[key] = @ + 1,
                        !.hist.detections[key] = @ + 1]
        W2 == NoteReq(W1, p, "probe")
    IN  IF key = "comments" THEN NoteCommentReq(W2, p, target) ELSE W2

\* ensure_pagination_mode returns the mode of key, observed
Resolved(W, key) == [W EXCEPT !.hist.resolved = @ \cup {<<key, W.mem.mode[key]>>}]

RECURSIVE Run(_, _, _)

\* ensure_pagination_mode up to its first request, or through to its return
ensure_pagination_mode(W, p, key, target, ret) ==
    IF W.mem.mode[key] # "auto"
    THEN Run(Resolved(set_pagination_mode(W, key, W.mem.mode[key]), key), p, ret)
    ELSE IF stored_mode_usable(W.mem.state.pagination[key])
    THEN Run(Resolved([W EXCEPT !.mem.mode[key] = W.mem.state.pagination[key]], key), p, ret)
    ELSE IssueProbe(W, p, key, target, ret)

\* Pagination.next_cursor on the page a traversal just handled, observed
Advance(W, p, key, count) ==
    LET mode == W.mem.mode[key]
        prev == W.procs[p].cursor
        next == next_cursor(mode, PageSize, prev, count)
    IN  [W EXCEPT !.procs[p].cursor = next,
                  !.hist.adv = @ \cup {[mode |-> mode, prev |-> prev, count |-> count, next |-> next]}]

\* a request to the comments endpoint of fetch_comments goes out
IssueComments(W, p, at) ==
    LET pr == Proc(W, p)
        W1 == [W EXCEPT !.procs[p] = [@ EXCEPT !.pc = at,
                                               !.req = params(W.mem.mode["comments"], pr.cursor),
                                               !.cm_fetches = @ + 1]]
    IN  NoteCommentReq(NoteReq(W1, p, at), p, pr.post)

start_cursor_fresh(saved, mode) == pagination_start(mode)

\* the cursor a traversal starts from: lines 866-870, 973-977, 665-669
start_cursor(saved, mode) ==
    LET c == IF saved # NoInt THEN saved ELSE pagination_start(mode)
    IN  IF c = 0 /\ mode = "page" THEN 1 ELSE c

listing_count_one(stop, nrows) == 1

\* lines 909-938: the rows of a page the loop handles before its break on stop_event
listing_count(stop, nrows) == IF stop THEN 1 ELSE nrows

marker_due_always(had_error, stop) == TRUE

\* lines 836-838: the loop of fetch_comments ended and the marker is to be written
marker_due(had_error, stop) == ~(had_error \/ stop)

loop_continues_always(stop) == TRUE

preflight_aborts_never(continue) == FALSE

\* run, line 1092: if not ok and not self.continue_on_preflight_fail: return
preflight_aborts(continue) == ~continue

\* while not self.stop_event.is_set(): lines 670, 807, 873, 980, 1115, 1174
loop_continues(stop) == ~stop

\* lines 884-885 and 986-987: the first page of a pair could not be fetched
first_page_failed(ss) == [ss EXCEPT !.done = TRUE, !.failed = TRUE]

should_schedule_unseen(W, post_id) == post_id \notin W.mem.seen_posts

\* lines 929 and 1032: a task is created unless the post is stored and its comments done
should_schedule(W, post_id) ==
    ~(post_id \in W.mem.seen_posts /\ post_id \in W.mem.comments_done)

\* lines 909-938: the tasks of the first n rows of a page are created by owner p
Spawn(W, p, rows, n) ==
    LET W1 == [W EXCEPT !.procs = [q \in Procs |->
                  IF q[1] = p[1] /\ q[2] \in 1..n /\ should_schedule(W, rows[q[2]])
                  THEN [Blank EXCEPT !.pc = "new", !.phase = W.procs[p].phase,
                                     !.post = rows[q[2]], !.count = RowCount(rows[q[2]]),
                                     !.late = W.mem.stop]
                  ELSE @[q]]]
        \* what the ledgers held of each row handled, and whether its task was created
        W2 == [W1 EXCEPT !.hist.rows_seen = @ \cup
                  { [seen |-> rows[i] \in W.mem.seen_posts,
                     done |-> rows[i] \in W.mem.comments_done,
                     task |-> W1.procs[<<p[1], i>>].pc = "new"] : i \in 1..n }]
    IN  IF \E i \in 1..n : should_schedule(W, rows[i]) THEN Note(W2, "task") ELSE W2

\* the tasks and workers a coroutine created are gone
Reap(W, qs) == [W EXCEPT !.procs = [q \in Procs |-> IF q \in qs THEN Blank ELSE @[q]]]

RECURSIVE repeat(_, _)
\* the lines of posts.jsonl that carry one id
repeat(id, n) == IF n = 0 THEN <<>> ELSE <<id>> \o repeat(id, n - 1)

PostOrder == <<"p1", "p2", "p3">>

RECURSIVE co_scan(_, _, _, _)
\* run_comments_only, lines 1136-1167: the posts whose comments are still to fetch,
\* one entry per line of posts.jsonl
co_scan(order, file, done, skip_zero) ==
    IF order = <<>> THEN <<>>
    ELSE LET id == Head(order)
             rest == co_scan(Tail(order), file, done, skip_zero)
         IN  IF id \in done \/ (skip_zero /\ RowCount(id) = 0) THEN rest
             ELSE repeat(id, file[id]) \o rest

co_posts(file, done, skip_zero) == co_scan(PostOrder, file, done, skip_zero)

(***************************************************************************)
(* Run(W, p, l): coroutine p runs from label l to its next suspension      *)
(* point (a fetch, the gather of a page's tasks, queue.join) or to its     *)
(* end.  W.out is the outcome of the fetch that just returned, W.rnd the   *)
(* index random.choice draws.                                              *)
(***************************************************************************)
Run(W, p, l) ==
    LET pr == W.procs[p]
        a == W.cfg
        st == W.mem.state
        ok == W.out = "ok"
    IN
    CASE
    \* ---- process_post (lines 711-746) ----
         l = "T_START" ->
            IF a.max_posts > 0 /\ st.counts_posts >= a.max_posts
            THEN Run(stop_event_set(W), p, "T_END")
            ELSE IF pr.post \notin W.mem.seen_posts
            THEN NoteReq([W EXCEPT !.procs[p].pc = "detail",
                                   !.hist.detail_reqs[pr.post] = @ + 1], p, "detail")
            ELSE Run(W, p, "T_COMMENTS")
      [] l = "T_DETAIL" ->
            LET inline == DetailComments(pr.post)
                W1 == IF ok /\ inline # <<>> /\ ~a.skip_comments
                      THEN write_comments(W, pr.post, inline) ELSE W
                W2 == save_state([W1 EXCEPT !.disk.posts = append_jsonl(@, pr.post),
                                            !.mem.seen_posts = @ \cup {pr.post},
                                            !.mem.state.counts_posts = @ + 1,
                                            !.hist.post_rows[pr.post] = @ + 1])
            IN  IF a.max_posts > 0 /\ W2.mem.state.counts_posts >= a.max_posts
                THEN Run(stop_event_set(W2), p, "T_END")
                ELSE Run(W2, p, "T_COMMENTS")
      [] l = "T_COMMENTS" ->
            IF a.skip_comments THEN Run(W, p, "T_END")
            ELSE IF pr.post \in W.mem.comments_done THEN Run(W, p, "T_END")
            ELSE IF a.skip_comments_when_zero /\ pr.count = 0
            THEN Run(mark_comments_done(W, pr.post), p, "T_END")
            ELSE Run(W, p, "FC_START")
      [] l = "T_END" ->
            \* _process_post_guarded: the semaphore is released
            [W EXCEPT !.procs[p] = [Blank EXCEPT !.pc = "done"], !.mem.sem = @ + 1]
    \* ---- fetch_comments (lines 773-841) ----
      [] l = "FC_START" ->
            ensure_pagination_mode(W, p, "comments", pr.post, "FC_MODE")
      [] l = "FC_MODE" ->
            LET mode == W.mem.mode["comments"]
                W1 == [W EXCEPT !.procs[p] = [@ EXCEPT !.cm_mode = mode, !.cm_fetches = 0,
                                                       !.cursor = pagination_start(mode),
                                                       !.page_idx = 0, !.seen_ids = {},
                                                       !.had_error = FALSE]]
            IN  IF mode = "limit" THEN IssueComments(W1, p, "cm_limit")
                ELSE Run(W1, p, "FC_WHILE")
      [] l = "FC_LIMIT" ->
            IF ok /\ CommentsNotFound(pr.post)
            THEN Run(NoteEnd(mark_comments_done(W, pr.post), pr.post, "limit_not_found", TRUE),
                     p, "FC_RET")
            ELSE IF ok
            THEN LET rows == CommentRows(W, p, pr.post)
                     W1 == IF rows # <<>> THEN write_comments(W, pr.post, rows) ELSE W
                 IN  Run(NoteEnd(mark_comments_done(W1, pr.post), pr.post, "limit_ok", TRUE),
                         p, "FC_RET")
            ELSE Run(NoteEnd(W, pr.post, "limit_failure", FALSE), p, "FC_RET")
      [] l = "FC_WHILE" ->
            IF ~loop_continues(W.mem.stop)
            THEN Run([W EXCEPT !.procs[p].cm_end = "stopped"], p, "FC_AFTER")
            ELSE IssueComments(W, p, "cm_page")
      [] l = "FC_PAGE" ->
            IF ok /\ CommentsNotFound(pr.post)
            THEN Run([W EXCEPT !.procs[p].had_error = FALSE,
                               !.procs[p].cm_end = "not_found"], p, "FC_AFTER")
            ELSE IF ~ok
            THEN Run([W EXCEPT !.procs[p].had_error = TRUE,
                               !.procs[p].cm_end = "failure"], p, "FC_AFTER")
            ELSE LET rows == CommentRows(W, p, pr.post)
                     new_ids == TopIds(rows) \ pr.seen_ids
                 IN  IF rows = <<>>
                     THEN Run([W EXCEPT !.procs[p].cm_end = "empty"], p, "FC_AFTER")
                     ELSE IF new_ids = {} /\ pr.page_idx > 0
                     THEN Run([(IF W.mem.mode["comments"] # "limit"
                                THEN set_pagination_mode(W, "comments", "limit") ELSE W)
                                  EXCEPT !.procs[p].cm_end = "redundant",
                                         !.hist.flipped = TRUE],
                              p, "FC_AFTER")
                     ELSE LET W1 == [W EXCEPT !.procs[p].seen_ids = @ \cup new_ids]
                              W2 == write_comments(W1, pr.post, rows)
                              W3 == Advance(W2, p, "comments", Len(rows))
                              W4 == [W3 EXCEPT !.procs[p].page_idx = @ + 1]
                          IN  IF a.max_comment_pages > 0
                                 /\ W4.procs[p].page_idx >= a.max_comment_pages
                              THEN Run([W4 EXCEPT !.procs[p].cm_end = "max_pages"],
                                       p, "FC_AFTER")
                              ELSE Run(W4, p, "FC_WHILE")
      [] l = "FC_AFTER" ->
            IF ~marker_due(pr.had_error, W.mem.stop)
            THEN Run(NoteEnd(W, pr.post, pr.cm_end, FALSE), p, "FC_RET")
            ELSE Run(NoteEnd(mark_comments_done(W, pr.post), pr.post, pr.cm_end, TRUE), p, "FC_RET")
      [] l = "FC_RET" ->
            LET W1 == IF pr.cm_mode = "limit"
                      THEN [W EXCEPT !.hist.limit_fetches = @ \cup {pr.cm_fetches}] ELSE W
            IN  Run(W1, p, IF pr.phase = "comments_only" THEN "CO_DONE" ELSE "T_END")
    \* ---- _detect_pagination_mode (lines 381-397), then lines 416-418 ----
      [] l = "PROBE_PAGE" ->
            LET res == ProbeResult(W, p, W.out)
                W1 == [W EXCEPT !.procs[p] = [@ EXCEPT !.pc = "probe_offset",
                                                       !.has_page = res[1],
                                                       !.rows_page = res[2],
                                                       !.req = [kind |-> "offset", cursor |-> 0]],
                                !.hist.probes[pr.pkey] = @ + 1]
                W2 == NoteReq(W1, p, "probe")
            IN  IF pr.pkey = "comments" THEN NoteCommentReq(W2, p, pr.ptarget) ELSE W2
      [] l = "PROBE_OFFSET" ->
            LET res == ProbeResult(W, p, W.out)
                mode == detected_mode(pr.has_page, pr.rows_page, res[1], res[2])
            IN  Run(Resolved(set_pagination_mode(W, pr.pkey, mode), pr.pkey), p, pr.ret)
    \* ---- resolve_submolt_posts_endpoint (lines 437-459) ----
      [] l = "EP_START" ->
            IF st.endpoint_by_name[pr.name] \in {"feed", "posts"}
            THEN Run([W EXCEPT !.procs[p].ep = st.endpoint_by_name[pr.name]], p, pr.eret)
            ELSE NoteReq(Await(W, p, "ep_feed"), p, "endpoint")
      [] l = "EP_FEED" ->
            IF ok
            THEN Run(save_state([W EXCEPT !.mem.state.endpoint_by_name[pr.name] = "feed",
                                          !.procs[p].ep = "feed"]), p, pr.eret)
            ELSE NoteReq(Await(W, p, "ep_posts"), p, "endpoint")
      [] l = "EP_POSTS" ->
            IF ok
            THEN Run(save_state([W EXCEPT !.mem.state.endpoint_by_name[pr.name] = "posts",
                                          !.procs[p].ep = "posts"]), p, pr.eret)
            ELSE Run([W EXCEPT !.procs[p].ep = "posts"], p, pr.eret)
    \* ---- process_submolt (lines 849-962) and process_global_posts (965-1065) ----
      [] l = "PS_START" ->
            LET W1 == IF st.submolt_progress[pr.name].present THEN W
                      ELSE [W EXCEPT !.mem.state.submolt_progress[pr.name] = ProgressFresh]
            IN  Run([W1 EXCEPT !.procs[p].eret = "PS_ENSURE"], p, "EP_START")
      [] l = "PS_ENSURE" ->
            ensure_pagination_mode([W EXCEPT !.procs[p].si = 1], p,
                                   "submolt_posts", pr.name, "PS_SORTS")
      [] l = "GP_START" ->
            IF ~a.include_global \/ st.global_posts.done THEN Run(W, p, "MAIN_DONE")
            ELSE ensure_pagination_mode(
                     [W EXCEPT !.procs[p] = [@ EXCEPT !.name = "global", !.si = 1,
                                                      !.phase = "global"]],
                     p, "global_posts", "global", "PS_SORTS")
      [] l = "PS_SORTS" ->
            IF pr.si > Len(submolt_sorts) THEN Run(W, p, "PS_FINISH")
            ELSE LET sort == submolt_sorts[pr.si]
                     W1 == IF sort_state(W, pr.name, sort).present THEN W
                           ELSE set_sort_state(W, pr.name, sort, SortFresh)
                     ss == sort_state(W1, pr.name, sort)
                     mode == W.mem.mode[page_key(pr.name)]
                     c0 == start_cursor(ss.cursor, mode)
                 IN  IF ss.done THEN Run([W1 EXCEPT !.procs[p].si = @ + 1], p, "PS_SORTS")
                     ELSE Run([W1 EXCEPT !.procs[p] = [@ EXCEPT !.cursor = c0, !.seen_ids = {},
                                                                !.page_idx = 0]],
                              p, "PS_WHILE")
      [] l = "PS_WHILE" ->
            IF ~loop_continues(W.mem.stop) THEN Run(W, p, "PS_AFTERWHILE")
            ELSE LET pair == <<pr.name, submolt_sorts[pr.si]>>
                 IN  NoteReq([W EXCEPT !.procs[p] = [@ EXCEPT !.pc = "page",
                                  !.req = params(W.mem.mode[page_key(pr.name)], pr.cursor)],
                               !.hist.first_req[pair] = IF @ = NoInt THEN pr.cursor ELSE @],
                             p, "page")
      [] l = "PS_PAGE" ->
            LET sort == submolt_sorts[pr.si]
                pair == <<pr.name, sort>>
                ss == sort_state(W, pr.name, sort)
                rows == ListingRows(W, p, pr.name)
                new_ids == SeqToSet(rows) \ pr.seen_ids
                redundant == IF pr.name = "global"
                             THEN pr.cursor # pagination_start(W.mem.mode["global_posts"])
                             ELSE pr.page_idx > 0
                n == listing_count(W.mem.stop, Len(rows))
            IN  IF ~ok
                THEN IF pr.page_idx = 0
                     THEN Run([set_sort_state(W, pr.name, sort, first_page_failed(ss))
                                  EXCEPT !.hist.first_fail = @ \cup {pair}],
                              p, "PS_AFTERWHILE")
                     ELSE Run([(IF pr.name = "global" THEN W
                                ELSE set_sort_state(W, pr.name, sort, [ss EXCEPT !.done = FALSE]))
                                  EXCEPT !.hist.later_fail[pair] = pr.cursor],
                              p, "PS_AFTERWHILE")
                ELSE IF rows = <<>>
                THEN Run([set_sort_state(W, pr.name, sort, [ss EXCEPT !.done = TRUE])
                             EXCEPT !.hist.two_page =
                                        IF pr.page_idx = 1 THEN @ \cup {pair} ELSE @],
                         p, "PS_AFTERWHILE")
                ELSE IF new_ids = {} /\ redundant
                THEN Run(set_sort_state(W, pr.name, sort, [ss EXCEPT !.done = TRUE]),
                         p, "PS_AFTERWHILE")
                ELSE LET W1 == [W EXCEPT
                                 !.procs[p] = [@ EXCEPT !.seen_ids = @ \cup new_ids,
                                                 !.nrows = Len(rows), !.nlisting = n,
                                                 !.has_more = ServerHasMore(pr.name,
                                                     Content(pr.name), pr.req, PageSize)],
                                 !.hist.relisted = @ \cup (SeqToSet(rows) \cap W.hist.start_done),
                                 !.hist.scheduled[pair] = @ + Cardinality(
                                     {i \in 1..n : should_schedule(W, rows[i])}),
                                 !.hist.first_page[pair] =
                                     IF pr.page_idx = 0 /\ ~@.seen
                                     THEN [seen |-> TRUE, rows |-> Len(rows),
                                           fresh |-> Cardinality({i \in 1..Len(rows) :
                                                       rows[i] \notin W.mem.seen_posts}),
                                           cursor |-> pr.cursor]
                                     ELSE @]
                         W2 == Spawn(W1, p, rows, n)
                     IN  IF \E i \in 1..n : should_schedule(W, rows[i])
                         THEN Await(W2, p, "gather")
                         ELSE Run(W2, p, "PS_POSTGATHER")
      [] l = "PS_POSTGATHER" ->
            LET sort == submolt_sorts[pr.si]
                pair == <<pr.name, sort>>
                W1 == Advance([Reap(W, TasksOf(p)) EXCEPT
                                  !.hist.listed[pair] = @ + pr.nlisting,
                                  !.hist.behind = @ \cup (SeqToSet(ListingRows(W, p, pr.name))
                                                            \ W.mem.seen_posts),
                                  !.hist.interrupted = IF W.mem.stop THEN @ \cup {pair} ELSE @],
                              p, page_key(pr.name), pr.nrows)
                W2 == save_state(set_sort_state(W1, pr.name, sort,
                          [sort_state(W1, pr.name, sort) EXCEPT !.cursor = W1.procs[p].cursor]))
                W3 == [W2 EXCEPT !.procs[p].page_idx = @ + 1]
                finished == set_sort_state(W3, pr.name, sort,
                                [sort_state(W3, pr.name, sort) EXCEPT !.done = TRUE])
            IN  IF a.max_pages_per_sort > 0 /\ W3.procs[p].page_idx >= a.max_pages_per_sort
                THEN Run(finished, p, "PS_AFTERWHILE")
                ELSE IF pr.has_more = "false" THEN Run(finished, p, "PS_AFTERWHILE")
                ELSE IF pr.name # "global" /\ W3.mem.stop THEN Run(W3, p, "PS_AFTERWHILE")
                ELSE IF pr.name = "global" /\ a.max_posts > 0
                        /\ W3.mem.state.counts_posts >= a.max_posts
                THEN Run(stop_event_set(W3), p, "PS_AFTERWHILE")
                ELSE Run(W3, p, "PS_WHILE")
      [] l = "PS_AFTERWHILE" ->
            IF W.mem.stop THEN Run(W, p, "PS_FINISH")
            ELSE Run([W EXCEPT !.procs[p].si = @ + 1], p, "PS_SORTS")
      [] l = "PS_FINISH" ->
            IF pr.name = "global"
            THEN Run(save_state([W EXCEPT !.mem.state.global_posts.done =
                                              all_done(st.global_posts.sorts)]),
                     p, "MAIN_DONE")
            ELSE Run(save_state([W EXCEPT !.mem.state.submolt_progress[pr.name].done =
                                     IF W.mem.stop THEN FALSE
                                     ELSE all_done(st.submolt_progress[pr.name].sorts)]),
                     p, "W_TASKDONE")
    \* ---- worker() of run (lines 1114-1123) ----
      [] l = "W_LOOP" ->
            IF ~loop_continues(W.mem.stop) \/ W.mem.queue = <<>>
            THEN SetProc(W, p, [Blank EXCEPT !.pc = "exit"])
            ELSE Run(Note([W EXCEPT !.mem.queue = Tail(@),
                                    !.hist.pulls[Head(W.mem.queue)] = @ + 1,
                                    !.procs[p] = [Blank EXCEPT !.name = Head(W.mem.queue),
                                                               !.phase = "submolt"]], "pull"),
                     p, "PS_START")
      [] l = "W_TASKDONE" ->
            Run([W EXCEPT !.mem.unfinished = @ - 1], p, "W_LOOP")
    \* ---- run (lines 1087-1129) ----
      [] l = "M_START" ->
            IF a.comments_only THEN Run(W, p, "CO_START")
            ELSE IF a.preflight # "skip" THEN Run(W, p, "PF_START")
            ELSE Run(W, p, "DISC_START")
    \* ---- run_preflight (lines 584-659) ----
      [] l = "PF_START" ->
            IF st.preflight_done /\ a.preflight # "force" THEN Run(W, p, "DISC_START")
            ELSE ensure_pagination_mode([W EXCEPT !.procs[p].phase = "preflight"], p,
                                        "submolts", "submolts", "PF_SUBMOLTS_REQ")
      [] l = "PF_SUBMOLTS_REQ" ->
            LET mode == W.mem.mode["submolts"]
            IN  NoteReq([W EXCEPT !.procs[p] = [@ EXCEPT !.pc = "pf_submolts",
                                            !.req = params(mode, pagination_start(mode))]],
                        p, "preflight")
      [] l = "PF_SUBMOLTS" ->
            LET rows == ServerRows(SubmoltRows(W), pr.req, PageSize)
            IN  IF ~ok \/ rows = <<>> THEN Run(W, p, "PF_FAIL")
                ELSE Run([W EXCEPT !.procs[p] = [@ EXCEPT !.name = rows[Min(W.rnd, Len(rows))],
                                                          !.eret = "PF_LISTING_REQ"]],
                         p, "EP_START")
      [] l = "PF_LISTING_REQ" ->
            NoteReq([W EXCEPT !.procs[p] = [@ EXCEPT !.pc = "pf_listing",
                                        !.req = [kind |-> "limit", cursor |-> NoInt]]],
                    p, "preflight")
      [] l = "PF_LISTING" ->
            LET posts == ServerRows(Content(pr.name), pr.req, PageSize)
            IN  IF ~ok \/ posts = <<>> THEN Run(W, p, "PF_FAIL")
                ELSE NoteReq([W EXCEPT !.procs[p] = [@ EXCEPT !.pc = "pf_detail",
                                                 !.post = posts[Min(W.rnd, Len(posts))]]],
                             p, "preflight")
      [] l = "PF_DETAIL" ->
            IF ~ok THEN Run(W, p, "PF_FAIL")
            ELSE ensure_pagination_mode(W, p, "comments", pr.post, "PF_COMMENTS_REQ")
      [] l = "PF_COMMENTS_REQ" ->
            LET mode == W.mem.mode["comments"]
            IN  NoteCommentReq(
                    NoteReq([W EXCEPT !.procs[p] = [@ EXCEPT !.pc = "pf_comments",
                                        !.req = params(mode, pagination_start(mode))]],
                            p, "preflight"),
                    p, pr.post)
      [] l = "PF_COMMENTS" ->
            Run(save_state([W EXCEPT !.mem.state.preflight_done = TRUE]), p, "DISC_START")
      [] l = "PF_FAIL" ->
            LET W1 == log_error([W EXCEPT !.hist.preflight_failed = TRUE])
            IN  IF preflight_aborts(a.continue_on_preflight_fail) THEN Run(W1, p, "MAIN_DONE")
                ELSE Run(W1, p, "DISC_START")
    \* ---- fetch_submolts (lines 662-701) ----
      [] l = "DISC_START" ->
            IF st.submolts.done THEN Run(W, p, "QUEUE")
            ELSE ensure_pagination_mode([W EXCEPT !.procs[p].phase = "discovery"], p,
                                        "submolts", "submolts", "DISC_CURSOR")
      [] l = "DISC_CURSOR" ->
            Run([W EXCEPT !.procs[p].cursor =
                              start_cursor(st.submolts.cursor, W.mem.mode["submolts"])],
                p, "DISC_WHILE")
      [] l = "DISC_WHILE" ->
            IF ~loop_continues(W.mem.stop) THEN Run(W, p, "QUEUE")
            ELSE NoteReq([W EXCEPT !.procs[p] = [@ EXCEPT !.pc = "disc",
                                     !.req = params(W.mem.mode["submolts"], pr.cursor)]],
                         p, "disc")
      [] l = "DISC_PAGE" ->
            LET rows == ServerRows(SubmoltRows(W), pr.req, PageSize)
                has_more == ServerHasMore("submolts", SubmoltRows(W), pr.req, PageSize)
                W1 == Advance([W EXCEPT !.mem.state.submolt_names = extend_new(@, rows)],
                              p, "submolts", Len(rows))
                W2 == save_state([W1 EXCEPT !.mem.state.submolts.cursor = W1.procs[p].cursor])
                end == submolts_page(ok, rows, has_more, a.max_submolts,
                                     W2.mem.state.submolt_names)
            IN  IF end = "failure" THEN Run(W, p, "QUEUE")
                ELSE IF end = "empty"
                THEN Run(save_state([W EXCEPT !.mem.state.submolts.done = TRUE]), p, "QUEUE")
                ELSE IF end = "continue" THEN Run(W2, p, "DISC_WHILE")
                ELSE Run(save_state([W2 EXCEPT !.mem.state.submolts.done = TRUE]), p, "QUEUE")
    \* ---- run, lines 1095-1129 ----
      [] l = "QUEUE" ->
            LET W1 == IF a.requeue_submolts
                      THEN save_state([W EXCEPT !.mem.state.submolt_progress =
                                                    [n \in NameSet |-> ProgressAbsent]])
                      ELSE W
                todo == todo_of(W1.mem.state.submolt_names, a.max_submolts,
                                [n \in NameSet |-> W1.mem.state.submolt_progress[n].done])
                W2 == [W1 EXCEPT !.mem.queue = todo, !.mem.unfinished = Len(todo),
                                 !.hist.queued = SeqToSet(todo),
                                 !.procs = [q \in Procs |->
                                     IF q \in WorkerProcs /\ q[1] <= Max(1, a.submolt_batch_size)
                                     THEN [Blank EXCEPT !.pc = "new", !.phase = "submolt"]
                                     ELSE @[q]]]
            IN  IF todo = <<>> THEN Run(W1, p, "GP_START")
                ELSE Await(W2, p, "join")
      [] l = "JOIN_RET" ->
            \* for w in workers: w.cancel()
            Run(Reap(W, WorkerProcs \cup TaskProcs), p,
                IF a.comments_only THEN "MAIN_DONE" ELSE "GP_START")
      [] l = "MAIN_DONE" ->
            [W EXCEPT !.procs = [q \in Procs |-> IF q = p THEN [Blank EXCEPT !.pc = "done"]
                                                 ELSE Blank]]
    \* ---- run_comments_only (lines 1132-1187) ----
      [] l = "CO_START" ->
            LET todo == co_posts(W.disk.posts, W.mem.comments_done, a.skip_comments_when_zero)
                W1 == [W EXCEPT !.mem.queue = todo, !.mem.unfinished = Len(todo),
                                !.procs = [q \in Procs |->
                                    IF q[1] = 0 /\ q[2] \in 1..PostConcurrency
                                    THEN [Blank EXCEPT !.pc = "new", !.phase = "comments_only"]
                                    ELSE @[q]]]
            IN  IF todo = <<>> THEN Run(W, p, "MAIN_DONE")
                ELSE Await(W1, p, "co_join")
      [] l = "CO_LOOP" ->
            IF ~loop_continues(W.mem.stop) \/ W.mem.queue = <<>>
            THEN SetProc(W, p, [Blank EXCEPT !.pc = "exit"])
            ELSE Run(Note([W EXCEPT !.mem.queue = Tail(@),
                                    !.procs[p] = [Blank EXCEPT !.post = Head(W.mem.queue),
                                                               !.phase = "comments_only"]],
                          "pull"),
                     p, "FC_START")
      [] l = "CO_DONE" ->
            Run([W EXCEPT !.mem.unfinished = @ - 1], p, "CO_LOOP")
      [] OTHER -> W

(***************************************************************************)
(* The actions of the crawler                                              *)
(***************************************************************************)
World(out, rnd) ==
    [cfg |-> cfg, disk |-> disk, mem |-> mem, procs |-> procs, hist |-> hist,
     out |-> out, rnd |-> rnd, sticky |-> life.sticky, repeats |-> life.repeats]

Become(W) ==
    /\ cfg' = W.cfg
    /\ disk' = W.disk
    /\ mem' = W.mem
    /\ procs' = W.procs
    /\ hist' = W.hist

\* where a coroutine continues when its fetch returns
ResumeLabel(at) ==
    CASE at = "probe_page" -> "PROBE_PAGE"
      [] at = "probe_offset" -> "PROBE_OFFSET"
      [] at = "ep_feed" -> "EP_FEED"
      [] at = "ep_posts" -> "EP_POSTS"
      [] at = "page" -> "PS_PAGE"
      [] at = "disc" -> "DISC_PAGE"
      [] at = "pf_submolts" -> "PF_SUBMOLTS"
      [] at = "pf_listing" -> "PF_LISTING"
      [] at = "pf_detail" -> "PF_DETAIL"
      [] at = "pf_comments" -> "PF_COMMENTS"
      [] at = "detail" -> "T_DETAIL"
      [] at = "cm_limit" -> "FC_LIMIT"
      [] at = "cm_page" -> "FC_PAGE"

\* fetch_json, lines 504-516: the comments endpoint of the post answers 404
NotFoundResponse(pr) ==
    \/ pr.pc \in {"cm_limit", "cm_page", "pf_comments"} /\ CommentsNotFound(pr.post)
    \/ pr.pc \in {"probe_page", "probe_offset"} /\ pr.pkey = "comments"
       /\ CommentsNotFound(pr.ptarget)

\* the arguments of a complete crawl: no cap on posts, not comments-only
Plain(args) == args.max_posts = 0 /\ ~args.comments_only

\* the life of an output directory under scenario s, at the start of its first run
FirstLife(s) ==
    [plan |-> s.plan, max_kills |-> s.kills, max_failures |-> s.failures,
     sticky |-> s.sticky,
     repeats |-> s.repeats,
     run |-> 1, kills |-> 0, failures |-> 0, plain |-> Plain(s.plan[1]),
     prev_first_fail |-> {}, prev_later_fail |-> [pr \in Pairs |-> NoInt],
     prev_cm_failed |-> {}]

\* ApiFetcher.__init__ on an empty output directory, under one of the scenarios
CrawlBoot(scenarios) ==
    /\ life \in { FirstLife(s) : s \in scenarios }
    /\ cfg = life.plan[1]
    /\ disk = EmptyDisk
    /\ mem = BootMem(cfg, EmptyDisk)
    /\ procs = [q \in Procs |-> IF q = MainProc THEN [Blank EXCEPT !.pc = "start"] ELSE Blank]
    /\ hist = BootRun(EmptyDisk)

CrawlInit == CrawlBoot(Scenarios)

\* asyncio.run(fetcher.run()) up to the first request
Start ==
    /\ procs[MainProc].pc = "start"
    /\ Become(Run(World("ok", 1), MainProc, "M_START"))
    /\ UNCHANGED life

\* fetch_json returns the server's answer (for a 404 of a comments endpoint, the
\* not-found marker, after log_error)
FetchOk(p) ==
    /\ procs[p].pc \in FetchPcs
    /\ \E rnd \in 1..PageSize :
          LET W == World("ok", rnd)
              W0 == IF NotFoundResponse(procs[p]) THEN log_error(W) ELSE W
          IN  Become(Run(W0, p, ResumeLabel(procs[p].pc)))
    /\ UNCHANGED life

\* fetch_json returns None after max_retries failed attempts, each logged by log_error
FetchFail(p) ==
    /\ procs[p].pc \in FetchPcs
    /\ life.failures < life.max_failures
    /\ Become(Run(log_error(World("fail", 1)), p, ResumeLabel(procs[p].pc)))
    /\ life' = [life EXCEPT !.failures = @ + 1]

\* asyncio.Semaphore: `async with self.post_sem` enters whatever the counter is
acquirable_always(sem) == TRUE

\* asyncio.Semaphore: `async with self.post_sem` enters when the counter is positive
acquirable(sem) == sem > 0

\* a created task starts: a per-post task once it holds the semaphore
\* (_process_post_guarded), a worker of run_comments_only at once
TaskStart(t) ==
    /\ procs[t].pc = "new"
    /\ IF procs[t].phase = "comments_only"
       THEN Become(Run(World("ok", 1), t, "CO_LOOP"))
       ELSE /\ acquirable(mem.sem)
            /\ Become(Run([World("ok", 1) EXCEPT !.mem.sem = @ - 1], t, "T_START"))
    /\ UNCHANGED life

\* a worker of run starts
WorkerStart(w) ==
    /\ procs[w].pc = "new"
    /\ Become(Run(World("ok", 1), w, "W_LOOP"))
    /\ UNCHANGED life

\* asyncio.gather(*tasks) returns once every task of the page has ended
GatherReturn(o) ==
    /\ procs[o].pc = "gather"
    /\ \A t \in TasksOf(o) : procs[t].pc \in {"none", "done"}
    /\ Become(Run(World("ok", 1), o, "PS_POSTGATHER"))
    /\ UNCHANGED life

\* queue.join() returns once every queued item is done
JoinReturn ==
    /\ procs[MainProc].pc \in {"join", "co_join"}
    /\ mem.unfinished = 0
    /\ Become(Run(World("ok", 1), MainProc, "JOIN_RET"))
    /\ UNCHANGED life

\* the process is killed while its coroutines wait
Kill ==
    /\ procs[MainProc].pc \notin {"start", "done", "dead"}
    /\ life.kills < life.max_kills
    /\ procs' = [q \in Procs |-> IF q = MainProc THEN [Blank EXCEPT !.pc = "dead"] ELSE Blank]
    /\ mem' = DeadMem
    /\ life' = [life EXCEPT !.kills = @ + 1]
    /\ UNCHANGED <<cfg, disk, hist>>

\* the crawler is started again on the same output directory
NewRun ==
    /\ procs[MainProc].pc \in {"done", "dead"}
    /\ life.run < Len(life.plan)
    /\ cfg' = life.plan[life.run + 1]
    /\ mem' = BootMem(cfg', disk)
    /\ life' = [life EXCEPT !.run = @ + 1, !.plain = @ /\ Plain(cfg'),
                            !.prev_first_fail = hist.first_fail,
                            !.prev_later_fail = hist.later_fail,
                            !.prev_cm_failed =
                                { p \in hist.cm_failed :
                                    disk.posts[p] > 0 /\ disk.comments_done[p] = 0 }]
    /\ procs' = [q \in Procs |-> IF q = MainProc THEN [Blank EXCEPT !.pc = "start"] ELSE Blank]
    /\ hist' = BootRun(disk)
    /\ UNCHANGED disk

CrawlIdle ==
    /\ cfg = DefaultArgs
    /\ disk = EmptyDisk
    /\ mem = DeadMem
    /\ procs = [q \in Procs |-> Blank]
    /\ hist = BootRun(EmptyDisk)
    /\ life = FirstLife(Scenario(DefaultArgs, DefaultArgs, 0, 0))

(***************************************************************************)
(* One call of fetch_json (lines 461-548) and what fetch_comments in limit *)
(* mode does with its result (lines 790-802).  The server's answer to each *)
(* attempt is drawn in advance.                                            *)
(***************************************************************************)
max_retries == 3

\* the endpoint kinds a path may be
Paths == {"comments", "detail", "listing"}

\* the server's answer to one attempt: a payload, status 404, status 500, or an
\* exception of the transport
Answers == {"ok", "404", "500", "exc"}

comments_404_never(status, path) == FALSE

\* line 494: status == 404 and path.endswith("/comments")
comments_404(status, path) == status = "404" /\ path = "comments"

FJInit ==
    fj \in { [path |-> p, answers |-> a, attempt |-> 0, result |-> "pending",
              errors |-> 0, sleeps |-> 0, marked |-> FALSE, returned |-> FALSE] :
             p \in Paths, a \in [1..max_retries -> Answers] }

FJIdle ==
    fj = [path |-> "listing", answers |-> [i \in 1..max_retries |-> "ok"], attempt |-> 0,
          result |-> "pending", errors |-> 0, sleeps |-> 0, marked |-> FALSE,
          returned |-> FALSE]

\* one iteration of the loop of fetch_json, up to its return or through its sleep;
\* the return None of line 548 follows the last sleep
FJAttempt ==
    /\ fj.result = "pending"
    /\ fj.attempt < max_retries
    /\ LET k == fj.attempt + 1
           ans == fj.answers[k]
       IN  fj' = IF ans = "ok"
                 THEN [fj EXCEPT !.attempt = k, !.result = "data"]
                 ELSE IF comments_404(ans, fj.path)
                 THEN [fj EXCEPT !.attempt = k, !.errors = @ + 1, !.result = "not_found"]
                 ELSE [fj EXCEPT !.attempt = k, !.errors = @ + 1, !.sleeps = @ + 1,
                                 !.result = IF k = max_retries THEN "none" ELSE "pending"]

\* fetch_comments in limit mode, lines 790-802: the marker is written for the
\* not-found marker and for a payload, not for None
FJCaller ==
    /\ fj.result # "pending"
    /\ ~fj.returned
    /\ fj' = [fj EXCEPT !.returned = TRUE,
                        !.marked = fj.path = "comments" /\ fj.result \in {"data", "not_found"}]

(***************************************************************************)
(* The loop of fetch_submolts (lines 670-699) and the queue of run (lines  *)
(* 1102-1112) as functions of what the server sends: the answers to the    *)
(* successive requests, the --max-submolts option and the submolts already *)
(* done are drawn in advance.  stop_event is not set in this loop: it is   *)
(* set by process_post and process_global_posts only, which run later.     *)
(***************************************************************************)
MaxDiscoveryPages == 2
MaxRowsPerPage == 2

\* the answer to one request: no payload after the retries, or a page with its rows
\* and its pagination.hasMore ("none": not reported)
DiscoveryPages ==
    { [ok |-> FALSE, rows |-> <<>>, has_more |-> "none"] }
        \cup { [ok |-> TRUE, rows |-> r, has_more |-> h] :
               r \in UNION { [1..n -> NameSet] : n \in 0..MaxRowsPerPage },
               h \in {"none", "true", "false"} }

DNStart(pages, max_submolts, done) ==
    [pages |-> pages, max_submolts |-> max_submolts, progress_done |-> done,
     names |-> <<>>, done |-> FALSE, requests |-> 0, ends |-> <<>>,
     seen |-> <<>>, repeated |-> FALSE, queue |-> <<>>, pc |-> "pages"]

DNInit ==
    dn \in { DNStart(ps, c, d) :
             ps \in UNION { [1..n -> DiscoveryPages] : n \in 0..MaxDiscoveryPages },
             c \in 0..1, d \in SUBSET NameSet }

DNIdle == dn = DNStart(<<>>, 0, {})

\* one iteration of the loop of fetch_submolts (lines 670-699)
DNPage ==
    /\ dn.pc = "pages"
    /\ dn.pages # <<>>
    /\ LET page == Head(dn.pages)
           names == extend_new(dn.names, page.rows)
           end == submolts_page(page.ok, page.rows, page.has_more, dn.max_submolts, names)
       IN  dn' = [dn EXCEPT !.pages = Tail(@),
                            !.requests = @ + 1,
                            !.names = IF end \in {"failure", "empty"} THEN @ ELSE names,
                            !.done = end \in {"empty", "has_more_false", "max_submolts"},
                            !.ends = IF end = "continue" THEN @ ELSE <<end, dn.requests + 1>>,
                            !.seen = IF page.ok THEN @ \o page.rows ELSE @,
                            !.repeated = @ \/ ~(\A i, j \in 1..Len(page.rows) :
                                                    page.rows[i] = page.rows[j] => i = j),
                            !.pc = IF end = "continue" THEN "pages" ELSE "queue"]

\* run, lines 1102-1112, once fetch_submolts has returned
DNQueue ==
    /\ dn.pc = "queue"
    /\ dn' = [dn EXCEPT !.pc = "queued",
                        !.queue = todo_of(dn.names, dn.max_submolts,
                                          [n \in NameSet |-> n \in dn.progress_done])]

(***************************************************************************)
(* fetch_post_comments of moltbook_analysis.ingest.api (lines 99-116): the *)
(* payloads the server answers page 1, 2, ... with, the post id and        *)
(* max_pages are drawn in advance.  A row of a payload is a JSON object,   *)
(* with its post_id absent, null, empty or an id, or some other JSON value.*)
(***************************************************************************)
MaxAnswers == 2
MaxRows == 2

PostIds == {"p1", "p2"}

\* row.get("post_id") of a JSON object: "absent" (no such key), "null", "" or an id
PostIdValues == {"absent", "null", ""} \cup PostIds

CommentRowSet ==
    { [dict |-> TRUE, id |-> "c1", post_id |-> v] : v \in PostIdValues }
        \cup { [dict |-> FALSE, id |-> "c1", post_id |-> "absent"] }

\* a payload: a bare list, an object with the list under "data", or an object
\* without a list
Payloads ==
    { [shape |-> sh, rows |-> r] :
        sh \in {"list", "data", "none"},
        r \in UNION { [1..n -> CommentRowSet] : n \in 0..MaxRows } }

\* _extract_list, lines 70-77
_extract_list(payload) == IF payload.shape \in {"list", "data"} THEN payload.rows ELSE <<>>

backfill_never(row, post_id) == row

\* lines 114-115: isinstance(row, dict) and not row.get("post_id")
backfill(row, post_id) ==
    IF row.dict /\ row.post_id \in {"absent", "null", ""}
    THEN [row EXCEPT !.post_id = post_id] ELSE row

FPStart(answers, post_id, max_pages) ==
    [answers |-> answers, post_id |-> post_id, max_pages |-> max_pages,
     page |-> 1, requests |-> <<>>, yielded |-> <<>>, pc |-> "for"]

FPInit ==
    fp \in { FPStart(a, p, n) :
             a \in [1..MaxAnswers -> Payloads], p \in {"p1"}, n \in 0..MaxAnswers }

FPIdle == fp = FPStart([i \in 1..MaxAnswers |-> [shape |-> "none", rows |-> <<>>]], "p1", 0)

\* one iteration of the loop of lines 105-116, with all it yields
FPPage ==
    /\ fp.pc = "for"
    /\ fp.page <= fp.max_pages
    /\ LET rows == _extract_list(fp.answers[fp.page])
       IN  fp' = IF rows = <<>>
                 THEN [fp EXCEPT !.requests = Append(@, fp.page), !.pc = "returned"]
                 ELSE [fp EXCEPT !.requests = Append(@, fp.page),
                                 !.yielded = @ \o [i \in 1..Len(rows) |->
                                                      backfill(rows[i], fp.post_id)],
                                 !.page = @ + 1]

\* range(1, max_pages + 1) is exhausted
FPReturn ==
    /\ fp.pc = "for"
    /\ fp.page > fp.max_pages
    /\ fp' = [fp EXCEPT !.pc = "returned"]

(***************************************************************************)
(* The network backoff: coroutines that each call fetch_json once (lines   *)
(* 461-548), with log_error (336-346) and _network_backoff_if_needed       *)
(* (348-361).  The answer to each attempt is chosen when the attempt is    *)
(* made; network_failures starts at any value earlier calls can have left. *)
(***************************************************************************)
NumFetchCallers == 2
MaxEarlierFailures == 11

FetchCallers == 1..NumFetchCallers

\* the answers to an attempt: a payload; an exception whose text names a failed
\* name resolution, with the curl fallback failing or succeeding; another error
Outcomes(curl_fallback) ==
    {"ok", "dns", "error"} \cup (IF curl_fallback THEN {"dns_curl_ok"} ELSE {})

\* _network_backoff_if_needed, line 359
network_wait(failures) == Min(60, 5 * failures)

\* fetch_json, lines 517 and 547: min(2 ** attempt, 8)
retry_wait(attempt) == Min(2 ^ attempt, 8)

NBStart(failures, curl_fallback) ==
    [network_failures |-> failures, curl_fallback |-> curl_fallback,
     callers |-> [t \in FetchCallers |-> [pc |-> "get", attempt |-> 0, wait |-> 0, slept |-> 0]],
     last_dns |-> 0, ok_seen |-> FALSE, gets |-> {}, dns_seen |-> {}]

NBInit == nb \in { NBStart(f, c) : f \in 0..MaxEarlierFailures, c \in BOOLEAN }

NBIdle == nb = NBStart(0, FALSE)

\* one attempt of fetch_json up to its return or its first sleep: client.get and,
\* in the handlers, the curl fallback and log_error with the start of the backoff
NBGet(t) ==
    /\ nb.callers[t].pc = "get"
    /\ \E ans \in Outcomes(nb.curl_fallback) :
          LET k == nb.callers[t].attempt + 1
              failures == nb.network_failures + 1
              sent == [nb EXCEPT !.gets = @ \cup {[caller |-> t, attempt |-> k,
                                                   failures |-> nb.network_failures,
                                                   by |-> nb.last_dns,
                                                   wait |-> nb.callers[t].wait,
                                                   slept |-> nb.callers[t].slept]}]
          IN  nb' = CASE ans \in {"ok", "dns_curl_ok"} ->
                          [sent EXCEPT !.network_failures = 0, !.last_dns = 0, !.ok_seen = TRUE,
                                       !.callers[t] = [pc |-> "returned", attempt |-> k,
                                                       wait |-> 0, slept |-> 0]]
                      [] ans = "dns" ->
                          [sent EXCEPT !.network_failures = failures, !.last_dns = t,
                                       !.dns_seen = @ \cup {[before |-> nb.network_failures,
                                                            after |-> failures,
                                                            wait |-> network_wait(failures)]},
                                       !.callers[t] = [pc |-> "backoff", attempt |-> k,
                                                       wait |-> network_wait(failures),
                                                       slept |-> 0]]
                      [] OTHER ->
                          [sent EXCEPT !.callers[t] = [pc |-> "retry", attempt |-> k,
                                                       wait |-> 0, slept |-> 0]]

\* asyncio.sleep(wait_s) of line 361 is over, log_error returns and the sleep of
\* fetch_json begins
NBBackoff(t) ==
    /\ nb.callers[t].pc = "backoff"
    /\ nb' = [nb EXCEPT !.callers[t] = [@ EXCEPT !.pc = "retry", !.slept = @ + nb.callers[t].wait]]

\* asyncio.sleep(min(2 ** attempt, 8)) is over: the next attempt, or return None
NBRetry(t) ==
    /\ nb.callers[t].pc = "retry"
    /\ nb' = [nb EXCEPT !.callers[t] =
                  [@ EXCEPT !.pc = IF nb.callers[t].attempt = max_retries THEN "returned"
                                   ELSE "get",
                            !.slept = @ + retry_wait(nb.callers[t].attempt)]]

(***************************************************************************)
(* Properties of the rate limiter                                          *)
(***************************************************************************)
\* consecutive grants are at least d apart, and K grants span at least (K-1)*d
GrantsApart(d) ==
    /\ \A i \in 1..(Len(rl_grants) - 1) : rl_grants[i + 1].t - rl_grants[i].t >= d
    /\ Len(rl_grants) >= 1 =>
         rl_grants[Len(rl_grants)].t - rl_grants[1].t >= (Len(rl_grants) - 1) * d

\* C5 as stated: with target rate R, any two consecutive grants of wait() are at
\* least 1/R apart and K requests take at least (K-1)/R, for every interleaving.
C5_GrantsApartTargetRate == GrantsApart(4 \div rl_rps)

\* C5 amended: the grants are at least 1/max(R, 0.01) apart (the limiter raises a
\* target rate below 0.01 to 0.01), and K requests take at least (K-1)/max(R, 0.01).
C5_GrantsApartClampedRate == GrantsApart(4 \div Max(rl_rps, MinRps))

\* two callers were granted back to back, exactly one interval apart, and three
\* requests took exactly two intervals
C5_Witness ==
    /\ rl_rps = 2
    /\ Len(rl_grants) = 3
    /\ rl_grants[1].by # rl_grants[2].by
    /\ rl_grants[2].t - rl_grants[1].t = 2
    /\ rl_grants[3].t - rl_grants[1].t = 4

(***************************************************************************)
(* Properties of flatten_comments                                          *)
(***************************************************************************)
RECURSIVE PreOrder(_, _, _)
\* the positions (index paths) of the comments of forest f from its i-th on, in
\* depth-first pre-order, each prefixed by the position of the enclosing comment
PreOrder(f, prefix, i) ==
    IF i > Len(f) THEN <<>>
    ELSE <<Append(prefix, i)>> \o PreOrder(f[i].replies, Append(prefix, i), 1)
         \o PreOrder(f, prefix, i + 1)

RECURSIVE NodeAt(_, _)
NodeAt(f, pos) ==
    IF Len(pos) = 1 THEN f[pos[1]] ELSE NodeAt(f[pos[1]].replies, Tail(pos))

Enclosing(pos) == SubSeq(pos, 1, Len(pos) - 1)

RECURSIVE PathOf(_, _)
\* the parent's path followed by "/" and the comment's id, rooted at the post id
PathOf(f, pos) ==
    (IF Len(pos) = 1 THEN FlattenPost ELSE PathOf(f, Enclosing(pos)))
        \o "/" \o NodeAt(f, pos).id

FlattenedAsNested ==
    LET order == PreOrder(fl_in, <<>>, 1)
    IN  /\ Len(fl_out) = Len(order)
        /\ \A i \in 1..Len(order) :
             LET pos == order[i]
             IN  /\ fl_out[i].id = NodeAt(fl_in, pos).id
                 /\ fl_out[i].depth = Len(pos) - 1
                 /\ fl_out[i].parent_id =
                        (IF Len(pos) = 1 THEN None ELSE NodeAt(fl_in, Enclosing(pos)).id)
                 /\ fl_out[i].thread_path = PathOf(fl_in, pos)

NodesOf(f) == { NodeAt(f, pos) : pos \in { PreOrder(f, <<>>, 1)[i] : i \in 1..Len(PreOrder(f, <<>>, 1)) } }

NoUpstreamDepthPath(f) == \A n \in NodesOf(f) : n.depth = NoInt /\ n.thread_path = None

\* C8 as stated: for any nested reply tree whose comments carry no upstream
\* depth/thread_path, flatten_comments returns every comment once, in depth-first
\* pre-order, with depth = nesting level, parent_id = id of the enclosing comment and
\* thread_path = the parent's path, "/" and its own id, rooted at the post id.
C8_FlattenAnyTree ==
    (fl_pc = "done" /\ NoUpstreamDepthPath(fl_in)) => FlattenedAsNested

\* C8 amended: the same, for trees whose comments all have an id and carry no
\* upstream depth, thread_path or parent_id.
C8_FlattenPlainTree ==
    (fl_pc = "done" /\ \A n \in NodesOf(fl_in) :
        n.id # None /\ n.parent_id = None /\ n.depth = NoInt /\ n.thread_path = None)
    => FlattenedAsNested

\* the three-level tree {c1: [{c2: [{c3}]}]} was flattened
C8_Witness ==
    /\ fl_pc = "done"
    /\ fl_in = <<Comment("c1", "plain", <<Comment("c2", "plain", <<Comment("c3", "plain", <<>>)>>)>>)>>
    /\ Len(fl_out) = 3
    /\ fl_out[1].depth = 0 /\ fl_out[1].thread_path = "p1/c1"
    /\ fl_out[2].depth = 1 /\ fl_out[2].parent_id = "c1" /\ fl_out[2].thread_path = "p1/c1/c2"
    /\ fl_out[3].depth = 2 /\ fl_out[3].parent_id = "c2" /\ fl_out[3].thread_path = "p1/c1/c2/c3"

(***************************************************************************)
(* Properties of the crawler                                               *)
(***************************************************************************)
Ended == procs[MainProc].pc = "done"

\* the sort_state of a pair as state.json holds it
DiskSort(pair) ==
    IF pair[1] = "global" THEN disk.state.global_posts.sorts[pair[2]]
    ELSE disk.state.submolt_progress[pair[1]].sorts[pair[2]]

\* the sort_state of a pair as the running process holds it in self.state
MemSort(pair) ==
    IF pair[1] = "global" THEN mem.state.global_posts.sorts[pair[2]]
    ELSE mem.state.submolt_progress[pair[1]].sorts[pair[2]]

\* the process of the current run was not killed
Alive == procs[MainProc].pc # "dead"

\* no id has more than one line in its output file
NoDuplicates ==
    /\ \A p \in AllPosts : disk.posts[p] <= 1 /\ disk.comments_done[p] <= 1
    /\ \A c \in AllComments : disk.comments[c] <= 1

\* the output files hold the ids an uninterrupted complete crawl ends with
SameIds ==
    /\ { p \in AllPosts : disk.posts[p] > 0 } = AllPosts
    /\ { c \in AllComments : disk.comments[c] > 0 } = AllComments

\* every run so far was a complete crawl and no fetch failed for good
CompleteCrawl == Ended /\ life.plain /\ life.failures = 0

\* a complete crawl, killed or not, ends with the ids of an uninterrupted one
ResumeSameIds == CompleteCrawl => SameIds

\* C1: a crawl that is killed at any point and restarted on the same output
\* directory ends with the same post ids in posts.jsonl and comment ids in
\* comments.jsonl as an uninterrupted crawl, and no post id, comment id or
\* comments-done marker appears more than once in its file.
C1_IdempotentResume == CompleteCrawl => SameIds /\ NoDuplicates

\* C2: within one run, at most one post-detail request is issued and at most one
\* row is appended to posts.jsonl for every post id, for any interleaving of the
\* per-post tasks and the submolt workers.
C2_OneDetailOneRow ==
    \A p \in AllPosts : hist.detail_reqs[p] <= 1 /\ hist.post_rows[p] <= 1

\* C3 as stated: a post whose id is in comments_done.jsonl at startup is never the
\* target of a comments-endpoint request by any phase of that run, preflight included.
C3_DonePostNeverRequested ==
    \A r \in hist.comment_reqs : r[2] \notin hist.start_done

\* C3 amended: such a post is never the target of a comments-endpoint request by
\* the submolt traversal, the global traversal or comments-only mode of that run
\* (preflight requests the comments of the post it samples whatever the ledger holds).
C3_DonePostRequestedByPreflightOnly ==
    \A r \in hist.comment_reqs : r[1] # "preflight" => r[2] \notin hist.start_done

\* a later run listed a post whose marker was in comments_done.jsonl at startup, and
\* requested comments outside preflight
C3_Witness ==
    /\ life.run > 1
    /\ hist.start_done # {}
    /\ hist.relisted # {}
    /\ \E r \in hist.comment_reqs : r[1] # "preflight"

\* C4: once a pagination mode for a key is stored in state.json, a later run on that
\* state file with the mode left on auto issues no probe request for the key and
\* uses the stored mode.
C4_StoredModeNotProbed ==
    \A k \in Keys :
        (cfg.pagination[k] = "auto" /\ hist.start_has
            /\ hist.start_state.pagination[k] \in Modes)
        => /\ hist.probes[k] = 0
           /\ \A r \in hist.resolved : r[1] = k => r[2] = hist.start_state.pagination[k]

\* a run on auto found a stored mode and resolved the key to it
C4_Witness ==
    \E k \in Keys :
        /\ cfg.pagination[k] = "auto"
        /\ hist.start_has
        /\ hist.start_state.pagination[k] \in Modes
        /\ <<k, hist.start_state.pagination[k]>> \in hist.resolved

\* C6: in offset mode the next cursor is the previous cursor plus the number of rows
\* returned, in page mode the previous cursor plus 1 whatever the row count, and in
\* limit mode there is no next page: the cursor stays and a traversal that is in
\* limit mode issues a single fetch only.
C6_CursorAdvanceByMode ==
    /\ \A r \in hist.adv :
          /\ r.mode = "offset" => r.next = r.prev + r.count
          /\ r.mode = "page" => r.next = r.prev + 1
          /\ r.mode = "limit" => r.next = r.prev
    /\ hist.limit_fetches \subseteq {1}
    /\ \A t \in Procs : procs[t].cm_mode = "limit" => procs[t].cm_fetches <= 1

\* one run advanced an offset cursor over a page shorter than the page size, a page
\* cursor over a short and over a full page, and fetched comments in limit mode
C6_Witness ==
    /\ \E r \in hist.adv : r.mode = "offset" /\ r.count < PageSize
    /\ \E r \in hist.adv : r.mode = "page" /\ r.count < PageSize
    /\ \E r \in hist.adv : r.mode = "page" /\ r.count = PageSize
    /\ hist.limit_fetches = {1}

\* C7: when the listing of a (submolt, sort) pair returns a first page of k new posts
\* and then a page with no posts, the traversal emits exactly k listing rows,
\* schedules exactly k per-post tasks and ends with the done flag of the sort true:
\* in the state of the process from the empty page on, and in state.json when the
\* run has ended.
C7_TwoPageScenario ==
    \A pair \in Pairs :
        (pair \in hist.two_page /\ hist.first_page[pair].fresh = hist.first_page[pair].rows)
        => /\ hist.listed[pair] = hist.first_page[pair].rows
           /\ hist.scheduled[pair] = hist.first_page[pair].rows
           /\ Alive => MemSort(pair).done
           /\ Ended => DiskSort(pair).done

\* the case of the specification: submolt "test", sort "new", posts p1 and p2
C7_Witness ==
    /\ <<"test", "new">> \in hist.two_page
    /\ hist.first_page[<<"test", "new">>].rows = 2
    /\ hist.first_page[<<"test", "new">>].fresh = 2
    /\ hist.listed[<<"test", "new">>] = 2
    /\ hist.scheduled[<<"test", "new">>] = 2
    /\ Ended

\* the progress of the pair was reset by --requeue-submolts
ProgressReset(pair) == cfg.requeue_submolts /\ pair[1] # "global"

\* C9: when the fetch of the first page of a (scope, sort) pair fails after its
\* retries, the pair is marked failed and done (in the state of the process at once,
\* in state.json when the run has ended), and a later run that does not reset the
\* progress sends no page request for the pair.
C9_FirstPageFailureIsFinal ==
    /\ \A pair \in hist.first_fail :
          /\ Alive => MemSort(pair).done /\ MemSort(pair).failed
          /\ Ended => DiskSort(pair).done /\ DiskSort(pair).failed
    /\ \A pair \in Pairs :
          (life.run > 1 /\ pair \in life.prev_first_fail /\ ~ProgressReset(pair))
          => hist.first_req[pair] = NoInt

\* what does hold of a first-page failure: the mark is set in the process at once,
\* is in state.json when the run has ended, and keeps the next run from requesting
\* the pair when no run was killed
FirstPageFailureFinalUnlessKilled ==
    /\ \A pair \in hist.first_fail :
          /\ Alive => MemSort(pair).done /\ MemSort(pair).failed
          /\ Ended => DiskSort(pair).done /\ DiskSort(pair).failed
    /\ \A pair \in Pairs :
          (life.run > 1 /\ pair \in life.prev_first_fail /\ ~ProgressReset(pair)
              /\ life.kills = 0)
          => hist.first_req[pair] = NoInt

\* the first page of a pair failed in a run that was not killed, and the next run
\* went through the submolts and the global feed to its end
FirstPageFailureWitness ==
    /\ life.run > 1
    /\ life.kills = 0
    /\ Ended
    /\ \E pair \in life.prev_first_fail : ~ProgressReset(pair)
    /\ \E pair \in Pairs : hist.first_req[pair] # NoInt

NewWork == {"disc", "page", "cm_page", "pull", "task"}

\* the stop signal is raised as soon as a post counted by this run brings the count
\* to max_posts, and once raised it stays raised while the process lives
StopRaisedAndKept ==
    /\ (Alive /\ cfg.max_posts > 0 /\ mem.state.counts_posts >= cfg.max_posts
           /\ \E p \in AllPosts : hist.post_rows[p] > 0) => mem.stop
    /\ (Alive /\ hist.stopped) => mem.stop

\* C11 as stated: once the post count reaches max_posts the stop signal is raised
\* and never cleared, and after it is raised no traversal loop starts another page
\* iteration, no worker pulls another submolt and no new per-post task is created.
C11_NoNewWorkAfterStop ==
    /\ StopRaisedAndKept
    /\ hist.after_stop \cap NewWork = {}

\* C11 amended: as C11, except that a listing page whose request was in flight when
\* the signal was raised still creates the per-post task of its first row; a task
\* created after the signal sends no request and appends no row.
C11_NoNewRequestAfterStop ==
    /\ StopRaisedAndKept
    /\ hist.after_stop \cap (NewWork \ {"task"}) = {}
    /\ "late_req" \notin hist.after_stop
    /\ \A t \in TaskProcs : procs[t].late => procs[t].pc \in {"new", "done"}

\* the signal was raised while the listing page of another worker was in flight;
\* that page created a task, the task ended, and so did the run
C11_Witness ==
    /\ hist.stopped
    /\ "task" \in hist.after_stop
    /\ Ended

\* C12: if the stop signal is raised while a listing page of a (scope, sort) pair is
\* being processed, the done flag of the pair is false when the run ends, whatever
\* hasMore the page carried.
C12_InterruptedPairNotDone ==
    \A pair \in hist.interrupted : Ended => ~DiskSort(pair).done

\* what does hold: an interrupted pair of a submolt, whose pages carry no hasMore,
\* is not done when the run ends
InterruptedSubmoltPairNotDone ==
    \A pair \in hist.interrupted : (Ended /\ pair[1] # "global") => ~DiskSort(pair).done

\* the signal was raised during a page of a submolt, and the run ended
InterruptedSubmoltPairWitness ==
    /\ Ended
    /\ \E pair \in hist.interrupted : pair[1] # "global"

\* the ends of fetch_comments after which C13 expects a marker, and those after
\* which it expects none
MarkedEnds == {"empty", "not_found", "redundant", "limit_ok", "limit_not_found"}
UnmarkedEnds == {"failure", "limit_failure"}

\* a redundant page switched the comments pagination to limit, for the process and
\* in the state it saves
FlipKept ==
    (Alive /\ hist.flipped)
    => mem.mode["comments"] = "limit" /\ mem.state.pagination["comments"] = "limit"

\* C13 as stated: fetch_comments writes a comments-done marker when it ends on an
\* empty page, on the not-found marker, on a redundant non-first page or after the
\* one successful fetch of limit mode, and writes none when it ends on a failed fetch;
\* a redundant page switches the comments pagination to limit for every later post.
C13_MarkerByOutcome ==
    /\ \A e \in hist.cm_ends :
          /\ e[1] \in MarkedEnds => e[2]
          /\ e[1] \in UnmarkedEnds => ~e[2]
    /\ FlipKept

\* C13 amended: as C13, except that a paginated traversal writes no marker, however
\* its loop ended, when the stop signal is set by the time the loop has ended.
C13_MarkerByOutcomeUnlessStopped ==
    /\ \A e \in hist.cm_ends :
          /\ (e[1] \in MarkedEnds /\ ~e[2])
             => hist.stopped /\ e[1] \in {"empty", "not_found", "redundant"}
          /\ e[1] \in UnmarkedEnds => ~e[2]
    /\ FlipKept

\* one run ended a traversal on a redundant page with a marker and then fetched the
\* comments of a later post in limit mode
C13_Witness ==
    /\ <<"redundant", TRUE>> \in hist.cm_ends
    /\ hist.flipped
    /\ \E e \in hist.cm_ends : e[1] \in {"limit_ok", "limit_not_found"}
    /\ Ended

\* the place of a phase in the order of run
PhaseRank(ph) ==
    CASE ph = "preflight" -> 1
      [] ph = "discovery" -> 2
      [] ph = "submolt" -> 3
      [] ph = "global" -> 4
      [] OTHER -> 5

\* C15: the requests of a run come in the order preflight, submolt discovery,
\* submolt traversal, global feed traversal; no request of the global feed goes out
\* while a submolt worker or one of its tasks is under way; and when preflight fails
\* without --continue-on-preflight-fail no request of discovery or traversal goes out.
C15_PhasesInOrder ==
    /\ \A i \in 1..(Len(hist.phases) - 1) :
          PhaseRank(hist.phases[i]) < PhaseRank(hist.phases[i + 1])
    /\ ~hist.early_global
    /\ (hist.preflight_failed /\ ~cfg.continue_on_preflight_fail)
       => \A i \in 1..Len(hist.phases) : hist.phases[i] = "preflight"

\* one run sent requests in each of its four phases and ended
C15_Witness ==
    /\ hist.phases = <<"preflight", "discovery", "submolt", "global">>
    /\ Ended

\* a run whose preflight failed without the continue setting has ended
PreflightAbortWitness ==
    /\ hist.preflight_failed
    /\ ~cfg.continue_on_preflight_fail
    /\ hist.phases # <<>>
    /\ Ended

\* the coroutines whose listing request is in flight
Listing == { p \in Procs : procs[p].pc = "page" }

\* the pairs of the scope coroutine p traverses
PairsOf(p) == { pair \in Pairs : pair[1] = procs[p].name }

\* C16: state.json holds one complete snapshot, and every change of a cursor, a
\* done or failed flag or a counter is in state.json before the traversal that made
\* it sends its next request.
C16_SavedBeforeNextRequest ==
    /\ DOMAIN disk.state = DOMAIN default_state(cfg)
    /\ \A p \in Listing :
          /\ \A pair \in PairsOf(p) :
                /\ DiskSort(pair).cursor = MemSort(pair).cursor
                /\ DiskSort(pair).done = MemSort(pair).done
                /\ DiskSort(pair).failed = MemSort(pair).failed
          /\ disk.state.counts_posts = mem.state.counts_posts

\* what does hold: the cursors and the post counter are in state.json before the
\* next listing request of the traversal
CursorSavedBeforeNextRequest ==
    \A p \in Listing :
        /\ \A pair \in PairsOf(p) : DiskSort(pair).cursor = MemSort(pair).cursor
        /\ disk.state.counts_posts = mem.state.counts_posts

\* a traversal has saved a cursor and sent the request of its next page
CursorSavedWitness ==
    \E p \in Listing : \E pair \in PairsOf(p) :
        procs[p].page_idx > 0 /\ DiskSort(pair).cursor = procs[p].cursor

(***************************************************************************)
(* Properties of fetch_json                                                *)
(***************************************************************************)
\* the call answered a comments path with 404 on its latest attempt
Comments404 ==
    /\ fj.path = "comments"
    /\ fj.attempt > 0
    /\ fj.answers[fj.attempt] = "404"
    /\ \A i \in 1..(fj.attempt - 1) : fj.answers[i] \notin {"ok", "404"}

\* a 404 on a comments path ends the call on that attempt with the not-found
\* marker, and the caller writes the comments-done marker
NotFoundEndsCall ==
    Comments404
    => /\ fj.result = "not_found"
       /\ fj.sleeps = fj.attempt - 1
       /\ fj.returned => fj.marked

NoRepeats(s) == \A i, j \in 1..Len(s) : s[i] = s[j] => i = j

RECURSIVE FirstSeen(_)
FirstSeen(s) ==
    IF s = <<>> THEN <<>>
    ELSE LET front == FirstSeen(SubSeq(s, 1, Len(s) - 1))
             last == s[Len(s)]
         IN  IF last \in SeqToSet(front) THEN front ELSE Append(front, last)

\* C19: after any sequence of discovery pages the discovered names hold each name
\* at most once, in the order in which the names were first seen, also when a page
\* repeats a name, and the queue holds no submolt twice.
C19_NamesOnceInFirstSeenOrder ==
    /\ NoRepeats(dn.names)
    /\ dn.names = FirstSeen(dn.seen)
    /\ NoRepeats(dn.queue)

\* the same as long as no page repeated a name
NamesOnceWithoutRepeatingPages ==
    ~dn.repeated => /\ NoRepeats(dn.names)
                    /\ dn.names = FirstSeen(dn.seen)
                    /\ NoRepeats(dn.queue)

NamesOnceWitness ==
    /\ dn.pc = "queued"
    /\ ~dn.repeated
    /\ Len(dn.seen) > Len(dn.names)
    /\ Len(dn.queue) = 2

DiscoveryEnded(how) == dn.ends # <<>> /\ dn.ends[1] \in how

\* C18: discovery sets submolts.done only on natural exhaustion, that is on a page
\* without rows or a page with hasMore = false, and a fetch failure on the first
\* page ends discovery with submolts.done still false.
C18_DoneOnlyOnExhaustion ==
    /\ dn.done => DiscoveryEnded({"empty", "has_more_false"})
    /\ dn.ends = <<"failure", 1>> => ~dn.done

\* submolts.done is set on exhaustion or when --max-submolts names are known, and
\* on no failure
DoneOnExhaustionOrCap ==
    /\ dn.done => DiscoveryEnded({"empty", "has_more_false", "max_submolts"})
    /\ DiscoveryEnded({"failure"}) => ~dn.done

DoneAtCapWitness ==
    /\ dn.pc = "queued"
    /\ dn.done
    /\ DiscoveryEnded({"max_submolts"})
    /\ dn.pages # <<>>

FirstPageFailureOfDiscoveryWitness ==
    /\ dn.pc = "queued"
    /\ dn.ends = <<"failure", 1>>
    /\ ~dn.done

(***************************************************************************)
(* Properties of the done flags                                            *)
(***************************************************************************)
\* the pair whose page the coroutine p has requested
CurrentPair(p) == <<procs[p].name, submolt_sorts[procs[p].si]>>

\* C17: no page is requested of a sort or of a submolt whose done flag is true in
\* state.json, in the run that set the flag or in a later one, and no done flag that
\* is true in state.json is saved as false, unless the run resets the progress of the
\* submolts (--requeue-submolts).
C17_DoneIsFinal ==
    /\ \A p \in Listing : /\ CurrentPair(p) \notin DoneFlags(disk.state)
                          /\ <<procs[p].name, "*">> \notin DoneFlags(disk.state)
    /\ \A f \in hist.undone : ProgressReset(f)

\* a run requests a page while state.json holds other pairs and a submolt as done
DoneIsFinalWitness ==
    /\ ~life.repeats
    /\ Listing # {}
    /\ \E pair \in Pairs : pair \in DoneFlags(hist.start_state) /\ pair[1] # "global"
    /\ \E n \in NameSet : <<n, "*">> \in DoneFlags(hist.start_state)

(***************************************************************************)
(* Properties of fetch_post_comments                                       *)
(***************************************************************************)
RECURSIVE RowsUpTo(_)
\* the rows of the pages 1..k as the server sent them
RowsUpTo(k) == IF k = 0 THEN <<>> ELSE RowsUpTo(k - 1) \o _extract_list(fp.answers[k])

Lacks(row) == row.post_id \in {"absent", "null", ""}

\* the number of pages that yielded rows
PagesYielded == IF fp.pc = "for" THEN Len(fp.requests)
                ELSE IF fp.requests # <<>>
                        /\ _extract_list(fp.answers[Len(fp.requests)]) = <<>>
                THEN Len(fp.requests) - 1 ELSE Len(fp.requests)

\* pages 1, 2, ... are requested in order up to the first page without rows or up
\* to max_pages, and the rows of the earlier pages are yielded in order, a row
\* without post_id with the post id of the caller, every other row as it was
PagesInOrderRowsKept ==
    /\ fp.requests = [i \in 1..Len(fp.requests) |-> i]
    /\ Len(fp.requests) <= fp.max_pages
    /\ \A i \in 1..PagesYielded : _extract_list(fp.answers[i]) # <<>>
    /\ fp.pc = "returned" => \/ Len(fp.requests) = fp.max_pages
                             \/ PagesYielded = Len(fp.requests) - 1
    /\ LET sent == RowsUpTo(PagesYielded)
       IN  /\ Len(fp.yielded) = Len(sent)
           /\ \A j \in 1..Len(sent) :
                  /\ fp.yielded[j].id = sent[j].id /\ fp.yielded[j].dict = sent[j].dict
                  /\ sent[j].dict /\ Lacks(sent[j]) => fp.yielded[j].post_id = fp.post_id
                  /\ ~Lacks(sent[j]) => fp.yielded[j] = sent[j]

\* C20: fetch_post_comments requests the pages 1, 2, ... in order until the first
\* page without rows or max_pages, yields every row of the earlier pages in order,
\* and every yielded row has a post_id: the caller's when the row lacked one, its
\* own when it had one.
C20_EveryRowHasPostId ==
    /\ PagesInOrderRowsKept
    /\ \A j \in 1..Len(fp.yielded) : ~Lacks(fp.yielded[j])

\* C20 amended: as C20, but it is every yielded row that is a JSON object that has
\* a post_id; a row that is not an object is yielded as it is.
C20_EveryObjectRowHasPostId ==
    /\ PagesInOrderRowsKept
    /\ \A j \in 1..Len(fp.yielded) :
           IF fp.yielded[j].dict THEN ~Lacks(fp.yielded[j])
           ELSE fp.yielded[j] = RowsUpTo(PagesYielded)[j]

\* two pages with rows were yielded, with a row that lacked a post_id, one that had
\* another post's id and one that is no object, and the loop ended at max_pages
C20_Witness ==
    /\ fp.pc = "returned"
    /\ Len(fp.requests) = 2
    /\ PagesYielded = 2
    /\ \E i, j, k \in 1..Len(fp.yielded) :
           LET sent == RowsUpTo(2)
           IN  /\ sent[i].dict /\ Lacks(sent[i]) /\ fp.yielded[i].post_id = "p1"
               /\ fp.yielded[j].post_id = "p2"
               /\ ~fp.yielded[k].dict

\* the loop ended at a page without rows after a page with rows
EmptyPageEndsWitness ==
    /\ fp.pc = "returned"
    /\ fp.max_pages = 2
    /\ PagesYielded = 1
    /\ Len(fp.requests) = 2
    /\ fp.yielded # <<>>

(***************************************************************************)
(* Properties of the concurrent coroutines                                 *)
(***************************************************************************)
\* C21: within a run the pagination probe of an endpoint key is performed at most
\* once, however the workers and per-post tasks that resolve the key interleave.
C21_ProbedAtMostOnce == \A k \in Keys : hist.detections[k] <= 1

\* the keys that one coroutine at a time resolves are probed at most once in a run
ProbedAtMostOnceAlone ==
    \A k \in {"submolts", "global_posts"} : hist.detections[k] <= 1

ProbedOnceAloneWitness ==
    /\ hist.detections["submolts"] = 1
    /\ hist.detections["global_posts"] = 1
    /\ Ended

BackoffOfTheFailedCaller ==
    /\ \A d \in nb.dns_seen :
          /\ d.after = d.before + 1
          /\ d.wait = (IF d.after >= 12 THEN 60 ELSE 5 * d.after)
    /\ \A g \in nb.gets :
          g.slept = (IF g.attempt = 1 THEN 0
                     ELSE g.wait + (IF g.attempt = 2 THEN 2 ELSE 4))
    /\ nb.ok_seen /\ nb.last_dns = 0 => nb.network_failures = 0

\* a caller slept the longest backoff and sent its next attempt; the other caller
\* got a payload in between
BackoffWitness ==
    /\ \E g \in nb.gets : g.wait = 60 /\ g.slept = 62 /\ g.failures = 0
    /\ nb.ok_seen

\* C23: each DNS failure increments the shared counter, every request issued
\* afterwards by any task is delayed by a further min(60, 5 * counter) seconds, and
\* a successful fetch resets the counter to zero.
C23_EveryRequestDelayed ==
    /\ \A d \in nb.dns_seen : d.after = d.before + 1
    /\ \A g \in nb.gets :
          g.by # 0 => g.slept >= network_wait(g.failures)

(***************************************************************************)
(* Properties of the comments of a post whose fetch failed                 *)
(***************************************************************************)
\* the next run sent a request to the comments endpoint of post p
CommentsRequested(p) == \E r \in hist.comment_reqs : r[2] = p

\* C24: if fetch_comments of a post ended on a failed fetch in one run, the post
\* being in posts.jsonl and without comments-done marker, the next run of the
\* crawler issues a comments request for that post.
C24_FailedCommentsRetried ==
    (life.run > 1 /\ Ended)
    => \A p \in life.prev_cm_failed : CommentsRequested(p)

\* the comments of a post failed in one run, and the next run ended
FailedCommentsWitness ==
    /\ life.run > 1
    /\ Ended
    /\ life.prev_cm_failed # {}

(***************************************************************************)
(* Properties of the bounded concurrency                                   *)
(***************************************************************************)
\* the per-post tasks inside `async with self.post_sem`
RunningTasks ==
    { t \in TaskProcs : procs[t].phase # "comments_only"
                        /\ procs[t].pc \notin {"none", "new", "done", "exit"} }

\* the workers of run inside process_submolt
Traversing == { w \in WorkerProcs : procs[w].pc \notin {"none", "new", "done", "exit"} }

\* no worker of run is left that could pull a name
WorkersGone == \A w \in WorkerProcs : procs[w].pc \in {"none", "exit"}

BoundedTasksAndWorkers ==
    /\ Cardinality(RunningTasks) <= PostConcurrency
    /\ Cardinality(RunningTasks) + mem.sem = PostConcurrency
    /\ Cardinality(Traversing) <= Max(1, cfg.submolt_batch_size)
    /\ Cardinality({ procs[w].name : w \in Traversing }) <= Max(1, cfg.submolt_batch_size)

\* C25: at every moment at most post-concurrency per-post tasks are running across
\* all workers together, at most worker-pool-size submolts are being traversed, and
\* each queued submolt name is pulled by exactly one worker.
C25_BoundedAndPulledExactlyOnce ==
    /\ BoundedTasksAndWorkers
    /\ \A n \in NameSet : hist.pulls[n] <= 1
    /\ (Alive /\ hist.queued # {} /\ WorkersGone)
       => \A n \in hist.queued : hist.pulls[n] = 1

\* C25 amended: the same bounds; each queued submolt name is pulled by at most one
\* worker, and by exactly one when the workers end without the stop signal.
C25_BoundedAndPulledAtMostOnce ==
    /\ BoundedTasksAndWorkers
    /\ \A n \in NameSet : hist.pulls[n] <= 1
    /\ \A n \in NameSet : hist.pulls[n] > 0 => n \in hist.queued
    /\ (Alive /\ hist.queued # {} /\ WorkersGone /\ ~mem.stop)
       => \A n \in hist.queued : hist.pulls[n] = 1

\* the semaphore is exhausted while a third task waits for it, every worker of the
\* pool traverses a submolt, and each queued name was pulled by one worker
C25_Witness ==
    /\ Cardinality(RunningTasks) = PostConcurrency
    /\ \E t \in TaskProcs : procs[t].pc = "new" /\ procs[t].phase # "comments_only"
    /\ Cardinality(Traversing) = NumWorkers
    /\ \A n \in NameSet : hist.pulls[n] = 1

\* the one worker of the pool left the loop on the stop signal with a name queued
UnpulledNameWitness ==
    /\ cfg.submolt_batch_size = 1
    /\ WorkersGone
    /\ mem.stop
    /\ mem.queue # <<>>

(***************************************************************************)
(* Properties of the end of the submolt phase                              *)
(***************************************************************************)
\* run waits in `await queue.join()` and every worker it created has returned
PoolAtRest == procs[MainProc].pc = "join" /\ WorkersGone

\* C26: the submolt phase always ends: once the stop signal fires or the queue
\* drains and the traversals under way have finished, the wait on the worker pool
\* returns (queue.join() returns when no queued item is unfinished), even when names
\* are still on the queue at the moment the stop signal fires.
C26_JoinReturnsAtRest ==
    PoolAtRest => mem.unfinished = 0

\* the wait returns when the workers left because the queue was drained
JoinReturnsWhenDrained ==
    (PoolAtRest /\ mem.queue = <<>>) => mem.unfinished = 0

\* the workers returned on an empty queue and the wait of run can return
JoinReturnsWitness ==
    /\ PoolAtRest
    /\ mem.queue = <<>>
    /\ hist.pulls["test"] = 1 /\ hist.pulls["other"] = 1

(***************************************************************************)
(* Properties of the done flag of a scope                                  *)
(***************************************************************************)
\* every configured sort of the progress record is there and done
EverySortDone(sorts) == \A s \in Sorts : sorts[s].present /\ sorts[s].done

SubmoltScopesDoneWhenSortsDone ==
    \A n \in NameSet :
       disk.state.submolt_progress[n].done => EverySortDone(disk.state.submolt_progress[n].sorts)

\* C27: a scope is marked done only when every requested sort of that scope is
\* done, for global_posts and for every submolt_progress[name], including when the
\* stop signal ends the traversal before all sorts were visited.
C27_ScopeDoneOnlyWhenSortsDone ==
    /\ SubmoltScopesDoneWhenSortsDone
    /\ disk.state.global_posts.done => EverySortDone(disk.state.global_posts.sorts)

\* a run under a cap of posts was stopped in a submolt that had a sort done, and
\* saved the scope as not done
StoppedSubmoltWitness ==
    /\ hist.stopped
    /\ Ended
    /\ \E n \in NameSet :
          /\ ~disk.state.submolt_progress[n].done
          /\ \E s \in Sorts : disk.state.submolt_progress[n].sorts[s].done

(***************************************************************************)
(* Properties of the cap on posts                                          *)
(***************************************************************************)
\* the lines of posts.jsonl
PostRows == disk.posts["p1"] + disk.posts["p2"] + disk.posts["p3"]

\* the first run of an output directory, under a cap on posts
CappedFirstRun == life.run = 1 /\ cfg.max_posts > 0

\* C28: when max_posts is set, the post counter of the state and the number of rows
\* appended to posts.jsonl never exceed max_posts, for every interleaving of the
\* per-post tasks.
C28_CapNeverExceeded ==
    CappedFirstRun
    => /\ mem.state.counts_posts <= cfg.max_posts
       /\ disk.state.counts_posts <= cfg.max_posts
       /\ PostRows <= cfg.max_posts

\* the tasks that hold the semaphore when the cap is reached still write their post
CapExceededByTasksUnderWay ==
    CappedFirstRun
    => /\ mem.state.counts_posts <= cfg.max_posts + PostConcurrency - 1
       /\ PostRows <= cfg.max_posts + PostConcurrency - 1

\* a capped run wrote as many posts as the cap and the tasks under way allow
CapWitness ==
    /\ CappedFirstRun
    /\ mem.stop
    /\ RunningTasks = {}
    /\ PostRows = cfg.max_posts + PostConcurrency - 1

(***************************************************************************)
(* Properties of the failed mark of a listing                              *)
(***************************************************************************)
\* the cursor of the first page of the listing of a pair
FirstPageCursor(pair) == start_cursor(NoInt, mem.mode[page_key(pair[1])])

\* C29: a fetch failure marks a (scope, sort) pair failed and done only if the failed
\* request was for the first page of the listing, the cursor being the start value of
\* the pagination mode; a failure at a cursor resumed from an earlier run leaves the
\* pair not done.
C29_FailedOnlyOnFirstPage ==
    Alive => \A pair \in hist.first_fail : hist.first_req[pair] = FirstPageCursor(pair)

\* in the first run of an output directory the mark is set for first pages only
FailedOnlyOnFirstPageOfFirstRun ==
    (Alive /\ life.run = 1) => \A pair \in hist.first_fail :
                                   hist.first_req[pair] = FirstPageCursor(pair)

\* the first page of a listing failed in the first run and the pair was marked
FailedOnFirstPageWitness ==
    /\ Alive
    /\ life.run = 1
    /\ \E pair \in hist.first_fail : MemSort(pair).failed /\ MemSort(pair).done

(***************************************************************************)
(* Properties of the cursor and the posts of a page                        *)
(***************************************************************************)
\* C30: the persisted cursor of a pair is advanced past a listing page only after
\* every post listed on that page is in the seen-posts ledger: no listed post is left
\* both unwritten and behind the persisted cursor, including when the stop signal
\* fires or max_posts is reached during that page.
C30_NoPostBehindCursor ==
    hist.behind = {}

\* a page of two rows arrived after the stop signal: the loop over its rows broke
\* after the first, whose task returned at the cap, and the cursor went past both
BehindCursorWitness ==
    /\ cfg.submolt_batch_size = NumWorkers
    /\ hist.behind # {}
    /\ \E pair \in Pairs : hist.first_page[pair].rows = 2 /\ hist.listed[pair] = 1

\* while the stop signal is not set, a cursor is saved past written posts only
NoPostBehindCursorUnlessStopped ==
    ~hist.stopped => hist.behind = {}

\* a run without stop signal saved the cursors of its pages and ended
CursorPastWrittenPostsWitness ==
    /\ Ended
    /\ ~hist.stopped
    /\ \A pr \in Pairs : hist.listed[pr] > 0
    /\ \A p \in AllPosts : disk.posts[p] > 0

(***************************************************************************)
(* Specifications                                                          *)
(***************************************************************************)
LimiterNext ==
    \/ RLTick /\ UNCHANGED <<fl_vars, cr_vars, fj, dn, fp, nb>>
    \/ RLCall /\ UNCHANGED <<fl_vars, cr_vars, fj, dn, fp, nb>>
    \/ RLLock /\ UNCHANGED <<fl_vars, cr_vars, fj, dn, fp, nb>>
    \/ RLSlept /\ UNCHANGED <<fl_vars, cr_vars, fj, dn, fp, nb>>

LimiterInit ==
    /\ DNIdle
    /\ FPIdle
    /\ FJIdle
    /\ NBIdle
    /\ RLInit
    /\ FLIdle
    /\ CrawlIdle

SpecLimiter == LimiterInit /\ [][LimiterNext]_vars

FlattenNext == Flatten /\ UNCHANGED <<rl_vars, cr_vars, fj, dn, fp, nb>>

FlattenInit ==
    /\ DNIdle
    /\ FPIdle
    /\ FJIdle
    /\ NBIdle
    /\ FLInit
    /\ RLIdle
    /\ CrawlIdle

SpecFlatten == FlattenInit /\ [][FlattenNext]_vars

Next ==
    \/ Start /\ UNCHANGED <<rl_vars, fl_vars, fj, dn, fp, nb>>
    \/ \E p \in Procs : FetchOk(p) /\ UNCHANGED <<rl_vars, fl_vars, fj, dn, fp, nb>>
    \/ \E p \in Procs : FetchFail(p) /\ UNCHANGED <<rl_vars, fl_vars, fj, dn, fp, nb>>
    \/ \E t \in TaskProcs : TaskStart(t) /\ UNCHANGED <<rl_vars, fl_vars, fj, dn, fp, nb>>
    \/ \E w \in WorkerProcs : WorkerStart(w) /\ UNCHANGED <<rl_vars, fl_vars, fj, dn, fp, nb>>
    \/ \E o \in {MainProc} \cup WorkerProcs : GatherReturn(o) /\ UNCHANGED <<rl_vars, fl_vars, fj, dn, fp, nb>>
    \/ JoinReturn /\ UNCHANGED <<rl_vars, fl_vars, fj, dn, fp, nb>>
    \/ Kill /\ UNCHANGED <<rl_vars, fl_vars, fj, dn, fp, nb>>
    \/ NewRun /\ UNCHANGED <<rl_vars, fl_vars, fj, dn, fp, nb>>

FetchNext ==
    \/ FJAttempt /\ UNCHANGED <<rl_vars, fl_vars, cr_vars, dn, fp, nb>>
    \/ FJCaller /\ UNCHANGED <<rl_vars, fl_vars, cr_vars, dn, fp, nb>>

FetchInit ==
    /\ NBIdle
    /\ DNIdle
    /\ FPIdle
    /\ FJInit
    /\ RLIdle
    /\ FLIdle
    /\ CrawlIdle

SpecFetch == FetchInit /\ [][FetchNext]_vars

NamesNext ==
    \/ DNPage /\ UNCHANGED <<rl_vars, fl_vars, cr_vars, fj, fp, nb>>
    \/ DNQueue /\ UNCHANGED <<rl_vars, fl_vars, cr_vars, fj, fp, nb>>

NamesInit ==
    /\ DNInit
    /\ FPIdle
    /\ RLIdle
    /\ FLIdle
    /\ CrawlIdle
    /\ FJIdle
    /\ NBIdle

SpecNames == NamesInit /\ [][NamesNext]_vars

IngestNext ==
    \/ FPPage /\ UNCHANGED <<rl_vars, fl_vars, cr_vars, fj, dn, nb>>
    \/ FPReturn /\ UNCHANGED <<rl_vars, fl_vars, cr_vars, fj, dn, nb>>

IngestInit ==
    /\ FPInit
    /\ RLIdle
    /\ FLIdle
    /\ CrawlIdle
    /\ FJIdle
    /\ NBIdle
    /\ DNIdle

SpecIngest == IngestInit /\ [][IngestNext]_vars

BackoffNext ==
    \/ \E t \in FetchCallers : NBGet(t) /\ UNCHANGED <<rl_vars, fl_vars, cr_vars, fj, dn, fp>>
    \/ \E t \in FetchCallers : NBBackoff(t) /\ UNCHANGED <<rl_vars, fl_vars, cr_vars, fj, dn, fp>>
    \/ \E t \in FetchCallers : NBRetry(t) /\ UNCHANGED <<rl_vars, fl_vars, cr_vars, fj, dn, fp>>

BackoffInit ==
    /\ NBInit
    /\ RLIdle
    /\ FLIdle
    /\ CrawlIdle
    /\ FJIdle
    /\ DNIdle
    /\ FPIdle

SpecBackoff == BackoffInit /\ [][BackoffNext]_vars

Init ==
    /\ DNIdle
    /\ FPIdle
    /\ FJIdle
    /\ NBIdle
    /\ CrawlInit
    /\ RLIdle
    /\ FLIdle

Spec == Init /\ [][Next]_vars

\* the crawler against a server that lists a submolt twice
RepeatInit ==
    /\ DNIdle
    /\ FPIdle
    /\ FJIdle
    /\ NBIdle
    /\ CrawlBoot(RepeatScenarios)
    /\ RLIdle
    /\ FLIdle

SpecRepeat == RepeatInit /\ [][Next]_vars

\* the crawler against a server with an outage
OutageInit ==
    /\ DNIdle
    /\ FPIdle
    /\ FJIdle
    /\ NBIdle
    /\ CrawlBoot(OutageScenarios)
    /\ RLIdle
    /\ FLIdle

SpecOutage == OutageInit /\ [][Next]_vars

\* the crawler with one submolt worker, and with NumWorkers
PoolInit ==
    /\ DNIdle
    /\ FPIdle
    /\ FJIdle
    /\ NBIdle
    /\ CrawlBoot(PoolScenarios)
    /\ RLIdle
    /\ FLIdle

SpecPool == PoolInit /\ [][Next]_vars

====
